---------------------------- MODULE Spec2Model ----------------------------
(***************************************************************************)
(* A model of the simpleai schema-compatibility and response-normalisation *)
(* core: the JSON-schema transforms of simpleai/schema.py, the JSON        *)
(* payload extraction of simpleai/utils.py and the provider adapters of    *)
(* simpleai/adapters.                                                      *)
(*                                                                         *)
(* JSON values are tagged records: a mapping is D(f) with f a function     *)
(* from key strings to values, a list is L(s) with s a sequence of values, *)
(* and every scalar carries its text, so that values of different Python   *)
(* types are never equal.  The insertion order of a mapping's keys is not  *)
(* kept: where the code makes a list of the keys (list(properties.keys())) *)
(* the list is in the order of KeyOrder.                                   *)
(***************************************************************************)
EXTENDS Integers, Sequences, FiniteSets, TLC

VARIABLES
    schema,     \* schema.py: the caller's schema object S (its current value)
    input,      \* the value S had when the last call started
    op,         \* the function called last
    kset,       \* strip_schema_keywords: the keys argument of the last call
    result,     \* the value of the object the last call returned
    text,       \* utils.py: the model output given to _extract_candidate_json
    extracted,  \* what _extract_candidate_json returned or raised
    provider,   \* adapters: the adapter whose _extract_citations is called
    envelope,   \* the response_dict it is called with
    extraction, \* what _extract_citations returned or raised
    adapter,    \* adapters: the adapter whose run is called
    args,       \* the arguments of run
    pc,         \* the step of run that is next
    uploaded,   \* what the uploads done so far returned
    built,      \* the payload (for Gemini the config) once it is built
    calls,      \* the calls made so far, in order
    response,   \* what the main provider call returned
    failure,    \* the exception a step raised
    outcome,    \* what run returned or raised
    log_settings,           \* logging_adapter.py: the settings of each constructor
    importable,             \* the HTTP libraries that can be imported
    tpc,                    \* the statement each constructing thread is at
    _instrumentation_lock,  \* the thread that holds the lock, 0 when free
    _is_instrumented,       \* the module's flag
    wrappers,               \* the wrappers around each patched method
    exchange,               \* the last HTTP exchange and the records it emitted
    settings,               \* model_registry.py: the settings
    requested_model,        \* the caller's string, or None
    resolved,               \* what resolve_provider_and_model returned or raised
    enabled,                \* PromptLogger: logging is enabled
    logfile,                \* the lines of the log file
    emitted,                \* the payloads handed to _emit, in call order
    wrapped,                \* the last call of an instrumented HTTP method
    file,                   \* collect_file_paths: the file argument
    files,                  \* collect_file_paths: the files argument
    file_paths              \* what collect_file_paths returned

schemaVars == <<schema, input, op, kset, result>>
jsonVars == <<text, extracted>>
citeVars == <<provider, envelope, extraction>>
runVars == <<adapter, args, pc, uploaded, built, calls, response, failure, outcome>>
logVars == <<log_settings, importable, tpc, _instrumentation_lock, _is_instrumented,
             wrappers, exchange>>
regVars == <<settings, requested_model, resolved>>
plogVars == <<enabled, logfile, emitted, wrapped>>
fileVars == <<file, files, file_paths>>
vars == <<schemaVars, jsonVars, citeVars, runVars, logVars, regVars, plogVars, fileVars>>

---------------------------------------------------------------------------
(* JSON values *)

Str(x) == [t |-> "str", v |-> x]
Num(x) == [t |-> "num", v |-> x]
Bool(x) == [t |-> "bool", v |-> x]
None == [t |-> "none", v |-> "None"]
D(f) == [t |-> "dict", m |-> f]
L(s) == [t |-> "list", s |-> s]

False == Bool("False")
True == Bool("True")
EmptyD == D(<<>>)

IsDict(x) == x.t = "dict"
IsList(x) == x.t = "list"
IsStr(x) == x.t = "str"

\* node[key] = value
Put(m, k, x) == (k :> x) @@ m
\* node.pop(key, None)
Pop(m, k) == [j \in DOMAIN m \ {k} |-> m[j]]
\* node.get(key): None when the key is absent
Get(m, k) == IF k \in DOMAIN m THEN m[k] ELSE None
\* item in list
InList(x, lst) == \E i \in DOMAIN lst.s : lst.s[i] = x
Range(s) == {s[i] : i \in DOMAIN s}

\* The order in which list(mapping.keys()) lists the keys.
KeyOrder ==
    <<"type", "title", "properties", "required", "additionalProperties",
      "patternProperties", "items", "anyOf", "oneOf", "default", "enum",
      "minimum", "minItems", "a", "b">>

RECURSIVE KeysFrom(_, _)
KeysFrom(ks, i) ==
    IF i > Len(KeyOrder) THEN <<>>
    ELSE IF KeyOrder[i] \in ks THEN <<KeyOrder[i]>> \o KeysFrom(ks, i + 1)
    ELSE KeysFrom(ks, i + 1)

RECURSIVE SetToSeq(_)
SetToSeq(ks) ==
    IF ks = {} THEN <<>>
    ELSE LET k == CHOOSE x \in ks : TRUE IN <<k>> \o SetToSeq(ks \ {k})

\* list(mapping.keys())
KeyList(m) == KeysFrom(DOMAIN m, 1) \o SetToSeq(DOMAIN m \ Range(KeyOrder))

---------------------------------------------------------------------------
(* schema.py *)

NullType == D("type" :> Str("null"))

ANTHROPIC_UNSUPPORTED_SCHEMA_KEYS ==
    {"minimum", "maximum", "exclusiveMinimum", "exclusiveMaximum",
     "multipleOf", "minItems", "maxItems", "uniqueItems"}

OPENAI_STRIPPED_KEYS == {"default", "title"}

OBJECTISH_KEYS == {"properties", "required", "patternProperties", "additionalProperties"}

\* node_type == "object" or (isinstance(node_type, list) and "object" in node_type)
is_object(m) ==
    LET node_type == Get(m, "type")
    IN  \/ node_type = Str("object")
        \/ (IsList(node_type) /\ InList(Str("object"), node_type))

\* any(key in node for key in ("properties", "required", ...))
looks_objectish(m) == DOMAIN m \cap OBJECTISH_KEYS # {}

\* A deepcopy that copies nothing and returns its argument itself.
deepcopy_alias(st, r) == [st |-> st, ref |-> r]

\* deepcopy(x): a new object, structurally equal to x, sharing nothing with it.
\* The store st is the sequence of the live objects; an object is named by
\* its index.
deepcopy(st, r) == [st |-> Append(st, st[r]), ref |-> Len(st) + 1]

\* walk_closed without the isinstance(node, list) branch.
RECURSIVE walk_closed_skips_lists(_)
walk_closed_skips_lists(node) ==
    IF IsDict(node) THEN
        LET m == node.m
            m1 == IF is_object(m) \/ looks_objectish(m)
                  THEN Put(m, "additionalProperties", False)
                  ELSE m
        IN  D([k \in DOMAIN m1 |-> walk_closed_skips_lists(m1[k])])
    ELSE node

\* walk of enforce_closed_objects: the in-place rewrite of the tree at node.
RECURSIVE walk_closed(_)
walk_closed(node) ==
    IF IsDict(node) THEN
        LET m == node.m
            m1 == IF is_object(m) \/ looks_objectish(m)
                  THEN Put(m, "additionalProperties", False)
                  ELSE m
        IN  D([k \in DOMAIN m1 |-> walk_closed(m1[k])])
    ELSE IF IsList(node) THEN
        L([i \in DOMAIN node.s |-> walk_closed(node.s[i])])
    ELSE node

enforce_closed_objects(st, r) ==
    LET c == deepcopy(st, r)
        normalized == c.ref
    IN  [st |-> [c.st EXCEPT ![normalized] = walk_closed(c.st[normalized])],
         ref |-> normalized]

\* walk_strip that pops the keys of the top-level mapping only.
walk_strip_top_level(node, keys_set) ==
    IF IsDict(node) THEN D([k \in DOMAIN node.m \ keys_set |-> node.m[k]]) ELSE node

\* walk of strip_schema_keywords.
RECURSIVE walk_strip(_, _)
walk_strip(node, keys_set) ==
    IF IsDict(node) THEN
        D([k \in DOMAIN node.m \ keys_set |-> walk_strip(node.m[k], keys_set)])
    ELSE IF IsList(node) THEN
        L([i \in DOMAIN node.s |-> walk_strip(node.s[i], keys_set)])
    ELSE node

strip_schema_keywords(st, r, keys) ==
    LET c == deepcopy(st, r)
        normalized == c.ref
    IN  [st |-> [c.st EXCEPT ![normalized] = walk_strip(c.st[normalized], keys)],
         ref |-> normalized]

\* A test that finds no null alternative in any list.
HasNullItem_never(lst) == FALSE

\* any(isinstance(item, dict) and item.get("type") == "null" for item in lst)
HasNullItem(lst) ==
    \E i \in DOMAIN lst.s : IsDict(lst.s[i]) /\ Get(lst.s[i].m, "type") = Str("null")

\* [{"type": t} for t in node_type if t != "null"]
TypeBranches(node_type) ==
    LET kept == SelectSeq(node_type.s, LAMBDA t : t # Str("null"))
    IN  [i \in DOMAIN kept |-> D("type" :> kept[i])]

\* The body of _make_nullable after node = deepcopy(schema): the value the
\* function returns, and whether that value is node itself, changed in place
\* (inplace), or a new mapping.
make_nullable_node(node) ==
    LET m == node.m
        node_type == Get(m, "type")
        any_of == Get(m, "anyOf")
        one_of == Get(m, "oneOf")
        new_node == Pop(m, "type")
    IN  IF node_type = Str("null") THEN [val |-> node, inplace |-> TRUE]
        ELSE IF IsList(node_type) /\ InList(Str("null"), node_type)
        THEN [val |-> node, inplace |-> TRUE]
        ELSE IF IsList(any_of) THEN
            [val |-> IF HasNullItem(any_of) THEN node
                     ELSE D(Put(m, "anyOf", L(Append(any_of.s, NullType)))),
             inplace |-> TRUE]
        ELSE IF IsList(one_of) THEN
            [val |-> IF HasNullItem(one_of) THEN node
                     ELSE D(Pop(Put(m, "anyOf", L(Append(one_of.s, NullType))), "oneOf")),
             inplace |-> TRUE]
        ELSE IF IsStr(node_type) THEN
            \* {"anyOf": [...], **new_node}: a key of new_node wins
            [val |-> D(new_node @@
                       ("anyOf" :> L(<<D("type" :> node_type), NullType>>))),
             inplace |-> FALSE]
        ELSE IF IsList(node_type) THEN
            [val |-> D(new_node @@
                       ("anyOf" :> L(TypeBranches(node_type) \o <<NullType>>))),
             inplace |-> FALSE]
        ELSE [val |-> D("anyOf" :> L(<<node, NullType>>)), inplace |-> FALSE]

_make_nullable(st, r) ==
    LET c == deepcopy(st, r)
        node == c.ref
        res == make_nullable_node(c.st[node])
    IN  IF res.inplace
        THEN [st |-> [c.st EXCEPT ![node] = res.val], ref |-> node]
        ELSE [st |-> Append(c.st, res.val), ref |-> Len(c.st) + 1]

\* set(node.get("required") or [])
RequiredSet(m) ==
    LET r == Get(m, "required")
    IN  IF IsList(r) THEN Range(r.s)
        ELSE IF IsDict(r) THEN {Str(k) : k \in DOMAIN r.m}
        ELSE {}

\* The exception an operation of Python raised, as the value a call ends with.
TypeErrorRaised == [t |-> "raise", v |-> "TypeError"]

IsRaise(x) == x.t = "raise"

\* set(node.get("required") or []) raises TypeError: the value is true or a
\* number other than 0 (not iterable), or a list that holds a mapping or a
\* list (unhashable).
RequiredSetRaises(m) ==
    LET r == Get(m, "required")
    IN  \/ r = True
        \/ (r.t = "num" /\ r # Num("0"))
        \/ (IsList(r) /\ \E i \in DOMAIN r.s : IsDict(r.s[i]) \/ IsList(r.s[i]))

\* The rewrite walk makes of one mapping before it goes on to the values.
RequiredAtNode(m) ==
    IF is_object(m) \/ looks_objectish(m) THEN
        IF "properties" \in DOMAIN m /\ IsDict(m["properties"]) THEN
            LET properties == m["properties"].m
                required == RequiredSet(m)
                all_keys == KeyList(properties)
                rewritten ==
                    [key \in DOMAIN properties |->
                        IF Str(key) \notin required /\ IsDict(properties[key])
                        THEN make_nullable_node(properties[key]).val
                        ELSE properties[key]]
            IN  Put(Put(m, "properties", D(rewritten)),
                    "required", L([i \in DOMAIN all_keys |-> Str(all_keys[i])]))
        ELSE IF "required" \notin DOMAIN m THEN Put(m, "required", L(<<>>))
        ELSE m
    ELSE m

\* walk of enforce_openai_required_all_properties raises at node or below it.
RECURSIVE walk_required_raises(_)
walk_required_raises(node) ==
    IF IsDict(node) THEN
        LET m == node.m
        IN  IF /\ is_object(m) \/ looks_objectish(m)
               /\ "properties" \in DOMAIN m /\ IsDict(m["properties"])
               /\ RequiredSetRaises(m)
            THEN TRUE
            ELSE \E k \in DOMAIN RequiredAtNode(m) : walk_required_raises(RequiredAtNode(m)[k])
    ELSE IF IsList(node) THEN
        \E i \in DOMAIN node.s : walk_required_raises(node.s[i])
    ELSE FALSE

\* walk of enforce_openai_required_all_properties.
RECURSIVE walk_required(_)
walk_required(node) ==
    IF IsDict(node) THEN
        LET m1 == RequiredAtNode(node.m)
        IN  D([k \in DOMAIN m1 |-> walk_required(m1[k])])
    ELSE IF IsList(node) THEN
        L([i \in DOMAIN node.s |-> walk_required(node.s[i])])
    ELSE node

enforce_openai_required_all_properties(st, r) ==
    LET c == deepcopy(st, r)
        normalized == c.ref
    IN  IF walk_required_raises(c.st[normalized])
        THEN [st |-> Append(c.st, TypeErrorRaised), ref |-> Len(c.st) + 1]
        ELSE [st |-> [c.st EXCEPT ![normalized] = walk_required(c.st[normalized])],
              ref |-> normalized]

\* output_format.model_json_schema(): the schema object of the output model.
output_model_schema(st, output_format) == [st |-> st, ref |-> output_format]

openai_response_schema(st, output_format) ==
    LET s0 == output_model_schema(st, output_format)
        s1 == enforce_closed_objects(s0.st, s0.ref)
        s2 == enforce_openai_required_all_properties(s1.st, s1.ref)
    IN  IF IsRaise(s2.st[s2.ref]) THEN s2
        ELSE strip_schema_keywords(s2.st, s2.ref, OPENAI_STRIPPED_KEYS)

anthropic_response_schema(st, output_format) ==
    LET s0 == output_model_schema(st, output_format)
        s1 == enforce_closed_objects(s0.st, s0.ref)
    IN  strip_schema_keywords(s1.st, s1.ref, ANTHROPIC_UNSUPPORTED_SCHEMA_KEYS)

perplexity_response_schema(st, output_format) ==
    LET s0 == output_model_schema(st, output_format)
    IN  enforce_closed_objects(s0.st, s0.ref)

---------------------------------------------------------------------------
(* The schemas the transforms are called with: the leaves, and every schema *)
(* that nests one of them up to MaxDepth times.                              *)

MaxDepth == 2

Obj(props, req) ==
    D(("type" :> Str("object")) @@ ("properties" :> D(props)) @@
      ("required" :> L(req)))

LeafSchemas ==
    { D("type" :> Str("string")),
      D(("type" :> Str("integer")) @@ ("minimum" :> Num("0"))),
      D(("type" :> Str("string")) @@ ("title" :> Str("T")) @@ ("default" :> Str("d"))),
      D(("anyOf" :> L(<<D("type" :> Str("string")), NullType>>)) @@ ("default" :> None)),
      D("type" :> L(<<Str("object"), Str("null")>>)),
      D(("type" :> L(<<Str("string"), Str("integer")>>)) @@ ("title" :> Str("T"))),
      D("oneOf" :> L(<<D("type" :> Str("string")), D("type" :> Str("integer"))>>)),
      D("oneOf" :> L(<<D("type" :> Str("string")), NullType>>)),
      D(("type" :> Str("string")) @@ ("enum" :> L(<<Str("a"), Str("b")>>))),
      D(("type" :> Str("object")) @@ ("properties" :> D("a" :> D("type" :> Str("string"))))
        @@ ("required" :> True)),
      EmptyD,
      NullType }

Wraps(s) ==
    { \* a required property
      Obj("a" :> s, <<Str("a")>>),
      \* an optional property beside a required one
      Obj(("a" :> s) @@ ("b" :> D("type" :> Str("integer"))), <<Str("b")>>),
      \* object-like by its keys only, required absent
      D("properties" :> D("a" :> s)),
      \* an array of s
      D(("type" :> Str("array")) @@ ("items" :> s) @@ ("minItems" :> Num("1"))),
      \* a union
      D("anyOf" :> L(<<s, D("type" :> Str("integer"))>>)),
      \* a model with a field named title
      D(("type" :> Str("object")) @@ ("title" :> Str("M")) @@
        ("properties" :> D("title" :> s)) @@ ("required" :> L(<<Str("title")>>))),
      \* a model with a field named properties
      Obj("properties" :> s, <<Str("properties")>>),
      \* a mapping type: additionalProperties holds a schema
      D(("type" :> Str("object")) @@ ("additionalProperties" :> s)) }

RECURSIVE SchemasUpTo(_)
SchemasUpTo(d) ==
    IF d = 0 THEN LeafSchemas
    ELSE LET sub == SchemasUpTo(d - 1)
         IN  sub \cup UNION {Wraps(s) : s \in sub}

KeySets == {OPENAI_STRIPPED_KEYS, ANTHROPIC_UNSUPPORTED_SCHEMA_KEYS, {"type"}}

---------------------------------------------------------------------------
(* utils.py: a text is a sequence of characters.  The characters are the    *)
(* brackets, the comma, a letter of prose and the blank; of JSON they spell *)
(* the empty object and the arrays of objects and arrays.                   *)

MaxTextLen == 5

Chars == {"{", "}", "[", "]", ",", "x", " "}

Whitespace == {" "}

RECURSIVE TextsOfLen(_)
TextsOfLen(n) ==
    IF n = 0 THEN {<<>>}
    ELSE {Append(t, c) : t \in TextsOfLen(n - 1), c \in Chars}

TextsUpTo(n) == UNION {TextsOfLen(k) : k \in 0..n}

\* The first position from p on that holds no whitespace (Len + 1 if none).
RECURSIVE SkipWs(_, _)
SkipWs(s, p) ==
    IF p <= Len(s) /\ s[p] \in Whitespace THEN SkipWs(s, p + 1) ELSE p

\* json.JSONDecoder.scan_once(s, idx): the position after the JSON value that
\* starts at p, or 0 when none starts there (StopIteration, JSONDecodeError).
RECURSIVE scan_once(_, _)
RECURSIVE JSONArrayItems(_, _)

\* json.decoder.JSONObject, from the position after the opening brace.
JSONObject(s, p) ==
    LET q == SkipWs(s, p)
    IN  IF q <= Len(s) /\ s[q] = "}" THEN q + 1 ELSE 0

\* json.decoder.JSONArray, from the position after the opening bracket.
JSONArray(s, p) ==
    LET q == SkipWs(s, p)
    IN  IF q <= Len(s) /\ s[q] = "]" THEN q + 1 ELSE JSONArrayItems(s, q)

JSONArrayItems(s, p) ==
    LET e == scan_once(s, p)
    IN  IF e = 0 THEN 0
        ELSE LET q == SkipWs(s, e)
             IN  IF q > Len(s) THEN 0
                 ELSE IF s[q] = "]" THEN q + 1
                 ELSE IF s[q] = "," THEN JSONArrayItems(s, SkipWs(s, q + 1))
                 ELSE 0

scan_once(s, p) ==
    IF p > Len(s) THEN 0
    ELSE IF s[p] = "{" THEN JSONObject(s, p + 1)
    ELSE IF s[p] = "[" THEN JSONArray(s, p + 1)
    ELSE 0

\* decoder.raw_decode(s): the length of the value at the start of s, 0 for
\* JSONDecodeError.
raw_decode(s) == LET e == scan_once(s, 1) IN IF e = 0 THEN 0 ELSE e - 1

\* str.strip()
RECURSIVE LStrip(_)
LStrip(s) == IF s # <<>> /\ s[1] \in Whitespace THEN LStrip(Tail(s)) ELSE s
RECURSIVE RStrip(_)
RStrip(s) ==
    IF s # <<>> /\ s[Len(s)] \in Whitespace THEN RStrip(SubSeq(s, 1, Len(s) - 1)) ELSE s
strip(s) == RStrip(LStrip(s))

startswith(s, c) == s # <<>> /\ s[1] = c
endswith(s, c) == s # <<>> /\ s[Len(s)] = c

JsonReturn(s) == [kind |-> "return", value |-> s]
JsonRaise(msg) == [kind |-> "ValueError", message |-> msg]

\* A scan that returns the text from the first value to its end.
RECURSIVE scan_from_keeps_trailing(_, _)
scan_from_keeps_trailing(stripped, start) ==
    IF start > Len(stripped)
    THEN JsonRaise("Could not find JSON object/array in model output.")
    ELSE IF stripped[start] \notin {"[", "{"} THEN scan_from_keeps_trailing(stripped, start + 1)
    ELSE LET end == raw_decode(SubSeq(stripped, start, Len(stripped)))
         IN  IF end = 0 THEN scan_from_keeps_trailing(stripped, start + 1)
             ELSE JsonReturn(SubSeq(stripped, start, Len(stripped)))

\* for start in range(len(stripped)): the scan from position start on.
RECURSIVE scan_from(_, _)
scan_from(stripped, start) ==
    IF start > Len(stripped)
    THEN JsonRaise("Could not find JSON object/array in model output.")
    ELSE IF stripped[start] \notin {"[", "{"} THEN scan_from(stripped, start + 1)
    ELSE LET end == raw_decode(SubSeq(stripped, start, Len(stripped)))
         IN  IF end = 0 THEN scan_from(stripped, start + 1)
             ELSE JsonReturn(SubSeq(stripped, start, start + end - 1))

_extract_candidate_json(txt) ==
    LET stripped == strip(txt)
    IN  IF stripped = <<>> THEN JsonRaise("No content to parse.")
        ELSE IF \/ (startswith(stripped, "{") /\ endswith(stripped, "}"))
                \/ (startswith(stripped, "[") /\ endswith(stripped, "]"))
        THEN JsonReturn(stripped)
        ELSE scan_from(stripped, 1)

NotCalled == [kind |-> "none"]

JsonIdle == text = <<>> /\ extracted = NotCalled

SchemaIdle ==
    schema = None /\ input = None /\ op = "none" /\ kset = {} /\ result = None

CiteIdle == provider = "none" /\ envelope = None /\ extraction = NotCalled

NoArgs == [kind |-> "none"]
NoException == [kind |-> "none"]
NotReturned == [kind |-> "none"]

FileIdle == file = [t |-> "none"] /\ files = [t |-> "none"] /\ file_paths = [t |-> "none"]

PlogIdle ==
    /\ enabled = FALSE /\ logfile = <<>> /\ emitted = <<>>
    /\ wrapped = [kind |-> "none"]

RegIdle == settings = <<>> /\ requested_model = [py |-> "idle"] /\ resolved = [kind |-> "none"]

LogIdle ==
    /\ log_settings = <<>> /\ importable = {} /\ tpc = <<>>
    /\ _instrumentation_lock = 0 /\ _is_instrumented = FALSE
    /\ wrappers = <<>> /\ exchange = [method |-> "none", records |-> <<>>]

RunIdle ==
    /\ adapter = "none" /\ args = NoArgs /\ pc = "idle" /\ uploaded = <<>>
    /\ built = None /\ calls = <<>> /\ response = None
    /\ failure = NoException /\ outcome = NotReturned

JsonInit ==
    /\ text \in TextsUpTo(MaxTextLen)
    /\ extracted = NotCalled
    /\ SchemaIdle
    /\ CiteIdle
    /\ RunIdle
    /\ LogIdle
    /\ RegIdle
    /\ PlogIdle
    /\ FileIdle

CallExtractCandidateJson ==
    /\ extracted = NotCalled
    /\ extracted' = _extract_candidate_json(text)
    /\ UNCHANGED <<text, schemaVars, citeVars, runVars, logVars, regVars, plogVars, fileVars>>

JsonNext == CallExtractCandidateJson

SpecJson == JsonInit /\ [][JsonNext]_vars

---------------------------------------------------------------------------
(* adapters: _extract_citations.  A response envelope is a JSON value, the  *)
(* response's model_dump(mode="json").  A loop over a value that cannot be  *)
(* iterated raises TypeError, .get on a value that is no mapping raises     *)
(* AttributeError, and an exception ends the call.                          *)

MaxItems == 2

Extracted(cs) == [kind |-> "return", citations |-> cs]
Raises(type) == [kind |-> "raise", type |-> type]

\* types.Citation; a field the adapter does not give is None.
Citation(prov, url, title, source, snippet, start_index, end_index, raw) ==
    [provider |-> prov, url |-> url, title |-> title, source |-> source,
     snippet |-> snippet, citation_id |-> None,
     start_index |-> start_index, end_index |-> end_index, raw |-> raw]

\* bool(x) of a JSON value
Truthy(x) ==
    IF IsDict(x) THEN DOMAIN x.m # {}
    ELSE IF IsList(x) THEN x.s # <<>>
    ELSE x \notin {None, Bool("False"), Str(""), Num("0")}

\* x or []
OrEmptyList(x) == IF Truthy(x) THEN x ELSE L(<<>>)
\* x or {}
OrEmptyDict(x) == IF Truthy(x) THEN x ELSE EmptyD
\* mapping.get(key, default)
GetOr(m, k, default) == IF k \in DOMAIN m THEN m[k] ELSE default

\* The citations a run of loop bodies appended, in order.
RECURSIVE Appended(_, _)
Appended(outcomes, i) ==
    IF i > Len(outcomes) THEN <<>>
    ELSE outcomes[i].citations \o Appended(outcomes, i + 1)

\* What a for loop iterates: the items of a list, the keys of a mapping, the
\* characters of a string (themselves strings); any other value is not
\* iterable and the loop raises TypeError.
Iterable(x) == IsList(x) \/ IsDict(x) \/ IsStr(x)

Items(x) ==
    IF IsList(x) THEN x.s
    ELSE IF IsDict(x) THEN LET ks == KeyList(x.m) IN [i \in DOMAIN ks |-> Str(ks[i])]
    ELSE IF x = Str("") THEN <<>>
    ELSE <<x>>

\* A loop that appends a citation only if the list does not have it yet.
Loop_dedup(outcomes) ==
    LET raised == {i \in DOMAIN outcomes : outcomes[i].kind = "raise"}
        cs == Appended(outcomes, 1)
        keep == {i \in DOMAIN cs : \A j \in 1..(i - 1) : cs[j] # cs[i]}
    IN  IF raised # {}
        THEN outcomes[CHOOSE i \in raised : \A j \in raised : i <= j]
        ELSE Extracted([n \in 1..Cardinality(keep) |->
                           cs[CHOOSE i \in keep : Cardinality({j \in keep : j < i}) = n - 1]])

\* The outcome of a loop whose bodies have the given outcomes: the citations
\* they append, or the exception of the first body that raises.
Loop(outcomes) ==
    LET raised == {i \in DOMAIN outcomes : outcomes[i].kind = "raise"}
    IN  IF raised # {}
        THEN outcomes[CHOOSE i \in raised : \A j \in raised : i <= j]
        ELSE Extracted(Appended(outcomes, 1))

\* Two statements in sequence.
Then(first, second) ==
    IF first.kind = "raise" THEN first
    ELSE IF second.kind = "raise" THEN second
    ELSE Extracted(first.citations \o second.citations)

OpenAI_annotation(annotation) ==
    IF ~IsDict(annotation) THEN Raises("AttributeError")
    ELSE LET a == annotation.m
         IN  Extracted(<<Citation("openai", Get(a, "url"), Get(a, "title"), Get(a, "url"),
                                  None, Get(a, "start_index"), Get(a, "end_index"),
                                  annotation)>>)

OpenAI_part(part) ==
    IF ~IsDict(part) THEN Raises("AttributeError")
    ELSE LET annotations == OrEmptyList(Get(part.m, "annotations"))
         IN  IF ~Iterable(annotations) THEN Raises("TypeError")
             ELSE Loop([i \in DOMAIN Items(annotations) |->
                            OpenAI_annotation(Items(annotations)[i])])

OpenAI_output(output) ==
    IF ~IsDict(output) THEN Raises("AttributeError")
    ELSE IF Get(output.m, "type") # Str("message") THEN Extracted(<<>>)
    ELSE LET content == GetOr(output.m, "content", L(<<>>))
         IN  IF ~Iterable(content) THEN Raises("TypeError")
             ELSE Loop([i \in DOMAIN Items(content) |-> OpenAI_part(Items(content)[i])])

OpenAI_extract_citations(response_dict) ==
    LET output == GetOr(response_dict.m, "output", L(<<>>))
    IN  IF ~Iterable(output) THEN Raises("TypeError")
        ELSE Loop([i \in DOMAIN Items(output) |-> OpenAI_output(Items(output)[i])])

Anthropic_citation(item) ==
    IF ~IsDict(item) THEN Raises("AttributeError")
    ELSE LET c == item.m
         IN  Extracted(<<Citation("claude", Get(c, "url"), Get(c, "title"), Get(c, "url"),
                                  Get(c, "cited_text"), None, None, item)>>)

Anthropic_search_result(item) ==
    IF ~IsDict(item) THEN Raises("AttributeError")
    ELSE LET c == item.m
         IN  Extracted(<<Citation("claude", Get(c, "url"), Get(c, "title"), Get(c, "url"),
                                  None, None, None, item)>>)

Anthropic_block(block) ==
    IF ~IsDict(block) THEN Raises("AttributeError")
    ELSE LET citations == OrEmptyList(Get(block.m, "citations"))
             content == OrEmptyList(Get(block.m, "content"))
             cited ==
                 IF Get(block.m, "type") # Str("text") THEN Extracted(<<>>)
                 ELSE IF ~Iterable(citations) THEN Raises("TypeError")
                 ELSE Loop([i \in DOMAIN Items(citations) |->
                                Anthropic_citation(Items(citations)[i])])
             searched ==
                 IF Get(block.m, "type") # Str("web_search_tool_result") THEN Extracted(<<>>)
                 ELSE IF ~Iterable(content) THEN Raises("TypeError")
                 ELSE Loop([i \in DOMAIN Items(content) |->
                                Anthropic_search_result(Items(content)[i])])
         IN  Then(cited, searched)

Anthropic_extract_citations(response_dict) ==
    LET content == GetOr(response_dict.m, "content", L(<<>>))
    IN  IF ~Iterable(content) THEN Raises("TypeError")
        ELSE Loop([i \in DOMAIN Items(content) |-> Anthropic_block(Items(content)[i])])

Gemini_chunk(chunk) ==
    IF ~IsDict(chunk) THEN Raises("AttributeError")
    ELSE LET web == OrEmptyDict(Get(chunk.m, "web"))
         IN  IF ~Truthy(web) THEN Extracted(<<>>)
             ELSE IF ~IsDict(web) THEN Raises("AttributeError")
             ELSE Extracted(<<Citation("gemini", Get(web.m, "uri"), Get(web.m, "title"),
                                       Get(web.m, "domain"), None, None, None, chunk)>>)

Gemini_candidate(candidate) ==
    IF ~IsDict(candidate) THEN Raises("AttributeError")
    ELSE LET grounding == OrEmptyDict(Get(candidate.m, "grounding_metadata"))
         IN  IF ~IsDict(grounding) THEN Raises("AttributeError")
             ELSE LET chunks == OrEmptyList(Get(grounding.m, "grounding_chunks"))
                  IN  IF ~Iterable(chunks) THEN Raises("TypeError")
                      ELSE Loop([i \in DOMAIN Items(chunks) |->
                                     Gemini_chunk(Items(chunks)[i])])

Gemini_extract_citations(response_dict) ==
    LET candidates == GetOr(response_dict.m, "candidates", L(<<>>))
    IN  IF ~Iterable(candidates) THEN Raises("TypeError")
        ELSE Loop([i \in DOMAIN Items(candidates) |->
                       Gemini_candidate(Items(candidates)[i])])

_extract_citations(prov, response_dict) ==
    IF prov = "openai" THEN OpenAI_extract_citations(response_dict)
    ELSE IF prov = "claude" THEN Anthropic_extract_citations(response_dict)
    ELSE Gemini_extract_citations(response_dict)

\* Response envelopes.  At every level the expected key is missing, present
\* with null, or present with a list; the innermost lists have at most
\* MaxItems entries, the lists around them at most two.
ListsOfLen(pool, n) == [1..n -> pool]
ListsUpTo(pool, n) == UNION {ListsOfLen(pool, k) : k \in 0..n}
UpToTwo(pool) == ListsUpTo(pool, 2)

\* The mappings {}, {key: null} and {key: x} for x in values, merged into base.
Slot(base, key, values) ==
    {D(base), D(Put(base, key, None))} \cup {D(Put(base, key, x)) : x \in values}

ListValues(lists) == {L(l) : l \in lists}

Annotations ==
    {EmptyD,
     D(("type" :> Str("url_citation")) @@ ("url" :> Str("u")) @@ ("title" :> Str("t"))
       @@ ("start_index" :> Num("0")) @@ ("end_index" :> Num("1")))}

OpenAIParts ==
    Slot(<<>>, "annotations", ListValues(ListsUpTo(Annotations, MaxItems)))

OpenAIOutputs ==
    {EmptyD, D("type" :> Str("reasoning"))}
        \cup Slot("type" :> Str("message"), "content", ListValues(UpToTwo(OpenAIParts)))

OpenAIEnvelopes == Slot(<<>>, "output", ListValues(UpToTwo(OpenAIOutputs)))

AnthropicCitations ==
    {EmptyD, D(("url" :> Str("u")) @@ ("title" :> Str("t")) @@ ("cited_text" :> Str("s")))}

AnthropicBlocks ==
    {EmptyD}
        \cup Slot("type" :> Str("text"), "citations",
                  ListValues(ListsUpTo(AnthropicCitations, MaxItems)))
        \cup Slot("type" :> Str("web_search_tool_result"), "content",
                  ListValues(ListsUpTo(AnthropicCitations, MaxItems)))

AnthropicEnvelopes == Slot(<<>>, "content", ListValues(UpToTwo(AnthropicBlocks)))

GeminiChunks ==
    Slot(<<>>, "web",
         {EmptyD, D(("uri" :> Str("u")) @@ ("title" :> Str("t")) @@ ("domain" :> Str("d")))})

GeminiGroundings ==
    Slot(<<>>, "grounding_chunks", ListValues(ListsUpTo(GeminiChunks, MaxItems)))

GeminiCandidates == Slot(<<>>, "grounding_metadata", GeminiGroundings)

GeminiEnvelopes == Slot(<<>>, "candidates", ListValues(UpToTwo(GeminiCandidates)))

Providers == {"openai", "claude", "gemini"}

Envelopes(prov) ==
    IF prov = "openai" THEN OpenAIEnvelopes
    ELSE IF prov = "claude" THEN AnthropicEnvelopes
    ELSE GeminiEnvelopes

CiteInit ==
    /\ provider \in Providers
    /\ envelope \in Envelopes(provider)
    /\ extraction = NotCalled
    /\ SchemaIdle
    /\ JsonIdle
    /\ RunIdle
    /\ LogIdle
    /\ RegIdle
    /\ PlogIdle
    /\ FileIdle

CallExtractCitations ==
    /\ provider # "none"
    /\ extraction = NotCalled
    /\ extraction' = _extract_citations(provider, envelope)
    /\ UNCHANGED <<provider, envelope, schemaVars, jsonVars, runVars, logVars, regVars, plogVars, fileVars>>

CiteNext == CallExtractCitations

SpecCitations == CiteInit /\ [][CiteNext]_vars

---------------------------------------------------------------------------
(* adapters: run.  One call of an adapter's run, step by step: the file     *)
(* uploads, the construction of the request, the provider call, and the     *)
(* normalisation of the response (text, then citations).  A step may raise; *)
(* an exception raised inside the try block is handled by the except        *)
(* clause, one raised outside it leaves run as it is.                       *)

MaxFiles == 2

\* An exception object: its class and its message, str(exc).
Exception(type, message) == [type |-> type, message |-> message]

\* What the provider SDK, the file system or a request builder can raise.
Exceptions ==
    {Exception("APIConnectionError", "Connection error."),
     Exception("OSError", "No such file or directory")}

\* The exception behind a raise of the normalisation code.
PyException(raise) ==
    IF raise.type = "TypeError"
    THEN Exception("TypeError", "'NoneType' object is not iterable")
    ELSE Exception("AttributeError", "object has no attribute 'get'")

FailurePrefix(a) ==
    IF a = "openai" THEN "OpenAI adapter failed: "
    ELSE IF a = "claude" THEN "Anthropic adapter failed: "
    ELSE "Gemini adapter failed: "

\* raise ProviderError(f"... adapter failed: {exc}") from exc
ProviderError(a, exc) ==
    [kind |-> "raise", type |-> "ProviderError",
     message |-> <<FailurePrefix(a), exc.message>>, cause |-> exc]

\* An exception that leaves run unhandled.
Escapes(exc) ==
    [kind |-> "raise", type |-> exc.type, message |-> <<exc.message>>,
     cause |-> NoException]

\* AdapterResponse(text=text, citations=citations, raw=response_dict)
AdapterResponse(txt, citations, raw) ==
    [kind |-> "return", text |-> txt, citations |-> citations, raw |-> raw]

\* The steps of run that lie inside its try block: all of them, in every
\* adapter (the Anthropic adapter's del files, before the try, is no step).
TrySteps(a) ==
    IF a = "openai" THEN {"upload", "build", "send", "normalize"}
    ELSE IF a = "claude" THEN {"build", "send", "normalize"}
    ELSE {"build", "upload", "send", "normalize"}

\* A try block that begins after the uploads and leaves the provider call out.
InTry_calls_outside(a, step) == step \in TrySteps(a) \ {"upload", "send"}

InTry(a, step) == step \in TrySteps(a)

\* if files: for path in files  (None and the empty sequence alike: no upload;
\* the Anthropic adapter deletes the argument)
FilesOf(a, run_args) == IF a = "claude" THEN <<>> ELSE run_args.files

\* The order of the steps: OpenAI uploads, builds the payload and sends;
\* Anthropic builds and sends; Gemini builds the config, then uploads while
\* building the contents argument of the call.
FirstStep(a, run_args) ==
    IF a = "openai" /\ FilesOf(a, run_args) # <<>> THEN "upload" ELSE "build"

\* A run that goes on after its first upload, whatever files are left.
AfterUpload_first_only(a, run_args, n) == IF a = "openai" THEN "build" ELSE "send"

AfterUpload(a, run_args, n) ==
    IF n < Len(FilesOf(a, run_args)) THEN "upload"
    ELSE IF a = "openai" THEN "build"
    ELSE "send"

AfterBuild(a, run_args) ==
    IF a = "gemini" /\ FilesOf(a, run_args) # <<>> THEN "upload" ELSE "send"

\* The provider calls.
Call(api, kwargs) == [api |-> api, kwargs |-> kwargs]

UploadApi(a) == IF a = "openai" THEN "files.create" ELSE "files.upload"

MainApi(a) ==
    IF a = "openai" THEN "responses.create"
    ELSE IF a = "claude" THEN "messages.create"
    ELSE "models.generate_content"

UploadKwargs(a, path) ==
    IF a = "openai"
    THEN D(("file" :> Str(path)) @@ ("purpose" :> Str("user_data")))
    ELSE D("file" :> Str(path))

\* uploaded.id of the OpenAI upload; the file object of the Gemini upload.
Uploaded(a, path) ==
    IF a = "openai" THEN Str(path) ELSE D("name" :> Str(path))

\* A merge in which the payload's value of a key wins over the caller's (as
\* payload.setdefault would do).
merge_adapter_options_keep(payload, adapter_options) ==
    IF Truthy(adapter_options) THEN payload @@ adapter_options.m ELSE payload

\* payload.update(adapter_options) under if adapter_options: the caller's
\* value replaces the value of a key the payload has.
merge_adapter_options(payload, adapter_options) ==
    IF Truthy(adapter_options) THEN adapter_options.m @@ payload ELSE payload

\* The turns of a prompt: the prompt itself, or each item of the list.
Turns(prompt) == IF IsStr(prompt) THEN <<prompt>> ELSE prompt.s

InputText(turn) == D(("type" :> Str("input_text")) @@ ("text" :> turn))
InputFile(file_id) == D(("type" :> Str("input_file")) @@ ("file_id" :> file_id))
UserMessage(content) == D(("role" :> Str("user")) @@ ("content" :> L(content)))

\* OpenAIAdapter._build_input
_build_input(prompt, file_ids) ==
    LET turns == IF Turns(prompt) = <<>> THEN <<Str("")>> ELSE Turns(prompt)
        last == Len(turns)
    IN  L([i \in DOMAIN turns |->
              UserMessage(<<InputText(turns[i])>>
                          \o (IF i = last
                              THEN [j \in DOMAIN file_ids |-> InputFile(file_ids[j])]
                              ELSE <<>>))])

\* AnthropicAdapter._build_messages
_build_messages(prompt) ==
    LET turns == IF Turns(prompt) = <<>> THEN <<Str("")>> ELSE Turns(prompt)
    IN  L([i \in DOMAIN turns |->
              UserMessage(<<D(("type" :> Str("text")) @@ ("text" :> turns[i]))>>)])

\* GeminiAdapter._build_contents, the uploads done
_build_contents(prompt, file_objects) ==
    LET contents == file_objects \o Turns(prompt)
    IN  IF Len(contents) = 1 THEN contents[1] ELSE L(contents)

\* output_format.model_json_schema()
model_json_schema(output_format) == output_format

OpenAIPayload(run_args, file_ids) ==
    LET base == ("model" :> Str(run_args.model))
                    @@ ("input" :> _build_input(run_args.prompt, file_ids))
        searched ==
            IF run_args.require_search
            THEN Put(base, "tools", L(<<D("type" :> Str("web_search_preview"))>>))
            ELSE base
        formatted ==
            IF run_args.output_format # None
            THEN Put(searched, "text",
                     D("format" :> D(("type" :> Str("json_schema"))
                                     @@ ("name" :> Str("simpleai_output"))
                                     @@ ("schema" :> model_json_schema(run_args.output_format))
                                     @@ ("strict" :> True))))
            ELSE searched
    IN  D(merge_adapter_options(formatted, run_args.adapter_options))

AnthropicPayload(run_args) ==
    LET base == ("model" :> Str(run_args.model))
                    @@ ("max_tokens" :> Num("4096"))
                    @@ ("messages" :> _build_messages(run_args.prompt))
        searched ==
            IF run_args.require_search
            THEN Put(base, "tools", L(<<D(("name" :> Str("web_search"))
                                         @@ ("type" :> Str("web_search_20250305")))>>))
            ELSE base
        formatted ==
            IF run_args.output_format # None
            THEN Put(searched, "output_config",
                     D("format" :> D(("type" :> Str("json_schema"))
                                     @@ ("schema" :> model_json_schema(run_args.output_format)))))
            ELSE searched
    IN  D(merge_adapter_options(formatted, run_args.adapter_options))

\* GenerateContentConfig(**config_kwargs)
GeminiConfig(run_args) ==
    LET base == "max_output_tokens" :> Num("8192")
        searched ==
            IF run_args.require_search
            THEN Put(base, "tools", L(<<D("google_search" :> EmptyD)>>))
            ELSE base
        formatted ==
            IF run_args.output_format # None
            THEN Put(Put(searched, "response_mime_type", Str("application/json")),
                     "response_schema", model_json_schema(run_args.output_format))
            ELSE searched
    IN  D(merge_adapter_options(formatted, run_args.adapter_options))

\* What the build step leaves: the payload, or for Gemini the config.
Build(a, run_args, file_ids) ==
    IF a = "openai" THEN OpenAIPayload(run_args, file_ids)
    ELSE IF a = "claude" THEN AnthropicPayload(run_args)
    ELSE GeminiConfig(run_args)

\* The keyword arguments of the main call.
MainKwargs(a, run_args, request, file_objects) ==
    IF a = "gemini"
    THEN D(("model" :> Str(run_args.model))
           @@ ("contents" :> _build_contents(run_args.prompt, file_objects))
           @@ ("config" :> request))
    ELSE request

\* sep.join(chunks): the text as its non-empty fragments; TypeError when a
\* chunk is no string.
Join(sep, chunks) ==
    IF \E i \in DOMAIN chunks : ~IsStr(chunks[i]) THEN Raises("TypeError")
    ELSE LET pieces == [i \in 1..(2 * Len(chunks) - 1) |->
                            IF i % 2 = 1 THEN chunks[(i + 1) \div 2].v ELSE sep]
         IN  [kind |-> "return", text |-> SelectSeq(pieces, LAMBDA x : x # "")]

\* A loop that appends chunks of text, joined at its end.
Joined(sep, loop) == IF loop.kind = "raise" THEN loop ELSE Join(sep, loop.citations)

\* response.model_dump(mode="json") if hasattr(response, "model_dump") else {}
ResponseDict(resp) == IF resp.has_model_dump THEN resp.dump ELSE EmptyD

OpenAI_text_part(part) ==
    IF ~IsDict(part) THEN Raises("AttributeError")
    ELSE IF Get(part.m, "type") = Str("output_text")
    THEN Extracted(<<GetOr(part.m, "text", Str(""))>>)
    ELSE Extracted(<<>>)

OpenAI_text_output(output) ==
    IF ~IsDict(output) THEN Raises("AttributeError")
    ELSE IF Get(output.m, "type") # Str("message") THEN Extracted(<<>>)
    ELSE LET content == GetOr(output.m, "content", L(<<>>))
         IN  IF ~Iterable(content) THEN Raises("TypeError")
             ELSE Loop([i \in DOMAIN Items(content) |-> OpenAI_text_part(Items(content)[i])])

OpenAI_text(resp) ==
    LET response_dict == ResponseDict(resp)
        output == GetOr(response_dict.m, "output", L(<<>>))
    IN  IF resp.text # <<>> \/ ~Truthy(response_dict)
        THEN [kind |-> "return", text |-> resp.text]
        ELSE IF ~Iterable(output) THEN Raises("TypeError")
        ELSE Joined("", Loop([i \in DOMAIN Items(output) |->
                                  OpenAI_text_output(Items(output)[i])]))

Anthropic_text_block(block) ==
    IF ~IsDict(block) THEN Raises("AttributeError")
    ELSE IF Get(block.m, "type") = Str("text")
    THEN LET item == GetOr(block.m, "text", Str(""))
         IN  IF Truthy(item) THEN Extracted(<<item>>) ELSE Extracted(<<>>)
    ELSE Extracted(<<>>)

Anthropic_text(resp) ==
    LET content == GetOr(ResponseDict(resp).m, "content", L(<<>>))
    IN  IF ~Iterable(content) THEN Raises("TypeError")
        ELSE Joined("\n", Loop([i \in DOMAIN Items(content) |->
                                    Anthropic_text_block(Items(content)[i])]))

Gemini_text_part(part) ==
    IF IsDict(part)
    THEN IF "text" \in DOMAIN part.m THEN Extracted(<<part.m["text"]>>) ELSE Extracted(<<>>)
    ELSE IF Iterable(part) THEN Extracted(<<>>)
    ELSE Raises("TypeError")

Gemini_text_candidate(candidate) ==
    IF ~IsDict(candidate) THEN Raises("AttributeError")
    ELSE LET content == OrEmptyDict(Get(candidate.m, "content"))
         IN  IF ~IsDict(content) THEN Raises("AttributeError")
             ELSE LET parts == OrEmptyList(Get(content.m, "parts"))
                  IN  IF ~Iterable(parts) THEN Raises("TypeError")
                      ELSE Loop([i \in DOMAIN Items(parts) |->
                                     Gemini_text_part(Items(parts)[i])])

Gemini_text(resp) ==
    LET response_dict == ResponseDict(resp)
        candidates == GetOr(response_dict.m, "candidates", L(<<>>))
    IN  IF resp.text # <<>> \/ ~Truthy(response_dict)
        THEN [kind |-> "return", text |-> resp.text]
        ELSE IF ~Iterable(candidates) THEN Raises("TypeError")
        ELSE Joined("\n", Loop([i \in DOMAIN Items(candidates) |->
                                    Gemini_text_candidate(Items(candidates)[i])]))

\* The text of a response, or the exception its extraction raises.
ExtractText(a, resp) ==
    IF a = "openai" THEN OpenAI_text(resp)
    ELSE IF a = "claude" THEN Anthropic_text(resp)
    ELSE Gemini_text(resp)

\* Arguments of run.
Models == {"m"}
Prompts == {Str("p"), L(<<Str("p"), Str("q")>>), L(<<>>)}
Paths == {"a.pdf", "b.pdf"}

OutputFormats ==
    {None,
     D(("type" :> Str("object")) @@ ("title" :> Str("Out"))
       @@ ("properties" :> D("n" :> D(("type" :> Str("integer")) @@ ("minimum" :> Num("0"))
                                      @@ ("default" :> Num("0")) @@ ("title" :> Str("N")))))
       @@ ("required" :> L(<<>>)))}

\* The keys of a request: the model, the prompt, the tools, the schema, and
\* one the adapter never sets.
OptionKeys(a) ==
    IF a = "openai" THEN {"model", "input", "tools", "text", "temperature"}
    ELSE IF a = "claude" THEN {"model", "messages", "tools", "output_config", "temperature"}
    ELSE {"model", "contents", "tools", "response_schema", "temperature"}

AdapterOptions(a) ==
    {None, EmptyD}
        \cup {D(k :> Str("caller")) : k \in OptionKeys(a)}
        \cup {D(("tools" :> Str("caller")) @@ ("temperature" :> Num("0")))}

RunArgs(a) ==
    [model : Models, prompt : Prompts, require_search : BOOLEAN,
     return_citations : BOOLEAN, files : ListsUpTo(Paths, MaxFiles),
     output_format : OutputFormats, adapter_options : AdapterOptions(a)]

\* Responses of the provider: the envelope is empty, has its top-level key
\* null, or carries text and citations; the SDK's text attribute is empty or
\* not; one response has no model_dump.
ResponseEnvelopes(a) ==
    IF a = "openai"
    THEN {EmptyD, D("output" :> None),
          D("output" :> L(<<D(("type" :> Str("message"))
                              @@ ("content" :> L(<<D(("type" :> Str("output_text"))
                                                     @@ ("text" :> Str("hi"))
                                                     @@ ("annotations" :> L(<<D(("url" :> Str("u")) @@ ("title" :> Str("t")))>>)))>>)))>>))}
    ELSE IF a = "claude"
    THEN {EmptyD, D("content" :> None),
          D("content" :> L(<<D(("type" :> Str("text")) @@ ("text" :> Str("hi"))
                               @@ ("citations" :> L(<<D(("url" :> Str("u")) @@ ("cited_text" :> Str("s")))>>))),
                             D(("type" :> Str("web_search_tool_result"))
                               @@ ("content" :> L(<<D("url" :> Str("v"))>>)))>>))}
    ELSE {EmptyD, D("candidates" :> None),
          D("candidates" :> L(<<D(("content" :> D("parts" :> L(<<D("text" :> Str("hi"))>>)))
                                  @@ ("grounding_metadata" :>
                                        D("grounding_chunks" :> L(<<D("web" :> D("uri" :> Str("u")))>>))))>>))}

Responses(a) ==
    [has_model_dump : {TRUE}, dump : ResponseEnvelopes(a),
     text : IF a = "claude" THEN {<<>>} ELSE {<<>>, <<"hi">>}]
        \cup {[has_model_dump |-> FALSE, dump |-> EmptyD, text |-> <<"hi">>]}

RunInit ==
    /\ adapter \in Providers
    /\ args \in RunArgs(adapter)
    /\ pc = "construct"
    /\ uploaded = <<>>
    /\ built = None
    /\ calls = <<>>
    /\ response = None
    /\ failure = NoException
    /\ outcome = NotReturned
    /\ SchemaIdle
    /\ JsonIdle
    /\ CiteIdle
    /\ LogIdle
    /\ RegIdle
    /\ PlogIdle
    /\ FileIdle

\* The package an adapter imports in __init__ and the adapter's class name.
Package(a) ==
    IF a = "openai" THEN "openai" ELSE IF a = "claude" THEN "anthropic" ELSE "google-genai"

ClassName(a) ==
    IF a = "openai" THEN "OpenAIAdapter"
    ELSE IF a = "claude" THEN "AnthropicAdapter"
    ELSE "GeminiAdapter"

\* raise ProviderError("<package> package is required for <class>.") from exc
PackageRequired(a, exc) ==
    [kind |-> "raise", type |-> "ProviderError",
     message |-> <<Package(a), " package is required for ", ClassName(a), ".">>,
     cause |-> exc]

\* Adapter.__init__: the import of the provider's client library succeeds and
\* the client is built, or it raises and the constructor raises; run is called
\* on a constructed adapter only.
Construct_adapter ==
    /\ pc = "construct"
    /\ \/ /\ pc' = FirstStep(adapter, args)
          /\ outcome' = outcome
       \/ /\ pc' = "unconstructed"
          /\ outcome' = PackageRequired(adapter, Exception("ImportError", "No module named"))
    /\ UNCHANGED <<adapter, args, uploaded, built, calls, response, failure,
                   schemaVars, jsonVars, citeVars, logVars, regVars, plogVars, fileVars>>

\* A step raises exc: the except clause is next if the step is inside the
\* try block, otherwise the exception leaves run.
Raise(step, exc) ==
    /\ failure' = exc
    /\ IF InTry(adapter, step)
       THEN pc' = "except" /\ outcome' = outcome
       ELSE pc' = "done" /\ outcome' = Escapes(exc)

\* The upload of the next file, which succeeds or raises.
Upload ==
    /\ pc = "upload"
    /\ LET path == FilesOf(adapter, args)[Len(uploaded) + 1]
       IN  /\ calls' = Append(calls, Call(UploadApi(adapter), UploadKwargs(adapter, path)))
           /\ \/ /\ uploaded' = Append(uploaded, Uploaded(adapter, path))
                 /\ pc' = AfterUpload(adapter, args, Len(uploaded) + 1)
                 /\ UNCHANGED <<failure, outcome>>
              \/ /\ \E exc \in Exceptions : Raise("upload", exc)
                 /\ UNCHANGED uploaded
    /\ UNCHANGED <<adapter, args, built, response, schemaVars, jsonVars, citeVars, logVars, regVars, plogVars, fileVars>>

\* The construction of the payload (for Gemini, of the config), the merge of
\* adapter_options last; model_json_schema or the config's constructor may
\* raise.
BuildRequest ==
    /\ pc = "build"
    /\ \/ /\ built' = Build(adapter, args, uploaded)
          /\ pc' = AfterBuild(adapter, args)
          /\ UNCHANGED <<failure, outcome>>
       \/ /\ args.output_format # None \/ adapter = "gemini"
          /\ \E exc \in Exceptions : Raise("build", exc)
          /\ UNCHANGED built
    /\ UNCHANGED <<adapter, args, uploaded, calls, response, schemaVars, jsonVars, citeVars, logVars, regVars, plogVars, fileVars>>

\* The main provider call, which returns a response or raises.
Send ==
    /\ pc = "send"
    /\ calls' = Append(calls, Call(MainApi(adapter), MainKwargs(adapter, args, built, uploaded)))
    /\ \/ /\ response' \in Responses(adapter)
          /\ pc' = "normalize"
          /\ UNCHANGED <<failure, outcome>>
       \/ /\ \E exc \in Exceptions : Raise("send", exc)
          /\ UNCHANGED response
    /\ UNCHANGED <<adapter, args, uploaded, built, schemaVars, jsonVars, citeVars, logVars, regVars, plogVars, fileVars>>

\* A normalisation that extracts the citations whether or not the caller
\* asked for them.
Normalize_always_extracts ==
    /\ pc = "normalize"
    /\ LET response_dict == ResponseDict(response)
           txt == ExtractText(adapter, response)
           citations == _extract_citations(adapter, response_dict)
       IN  IF txt.kind = "raise"
           THEN Raise("normalize", PyException(txt)) /\ UNCHANGED calls
           ELSE /\ calls' = Append(calls, Call("_extract_citations", response_dict))
                /\ IF citations.kind = "raise"
                   THEN Raise("normalize", PyException(citations))
                   ELSE /\ outcome' = AdapterResponse(txt.text, citations.citations, response_dict)
                        /\ pc' = "done"
                        /\ UNCHANGED failure
    /\ UNCHANGED <<adapter, args, uploaded, built, response, schemaVars, jsonVars, citeVars, logVars, regVars, plogVars, fileVars>>

\* The rest of the try block: the text, the citations if return_citations,
\* and the return of the AdapterResponse.
Normalize ==
    /\ pc = "normalize"
    /\ LET response_dict == ResponseDict(response)
           txt == ExtractText(adapter, response)
           citations ==
               IF args.return_citations THEN _extract_citations(adapter, response_dict)
               ELSE Extracted(<<>>)
       IN  IF txt.kind = "raise"
           THEN Raise("normalize", PyException(txt)) /\ UNCHANGED calls
           ELSE /\ calls' = IF args.return_citations
                            THEN Append(calls, Call("_extract_citations", response_dict))
                            ELSE calls
                /\ IF citations.kind = "raise"
                   THEN Raise("normalize", PyException(citations))
                   ELSE /\ outcome' = AdapterResponse(txt.text, citations.citations, response_dict)
                        /\ pc' = "done"
                        /\ UNCHANGED failure
    /\ UNCHANGED <<adapter, args, uploaded, built, response, schemaVars, jsonVars, citeVars, logVars, regVars, plogVars, fileVars>>

\* except Exception as exc: raise ProviderError(...) from exc
Except ==
    /\ pc = "except"
    /\ outcome' = ProviderError(adapter, failure)
    /\ pc' = "done"
    /\ UNCHANGED <<adapter, args, uploaded, built, calls, response, failure,
                   schemaVars, jsonVars, citeVars, logVars, regVars, plogVars, fileVars>>

RunNext == Construct_adapter \/ Upload \/ BuildRequest \/ Send \/ Normalize \/ Except

SpecRun == RunInit /\ [][RunNext]_vars

---------------------------------------------------------------------------
(* adapters/logging_adapter.py: the installation of the network             *)
(* instrumentation.  Threads construct PromptLoggers concurrently; the        *)
(* module's globals _instrumentation_lock and _is_instrumented and the        *)
(* patched methods of the HTTP libraries are shared by all of them.  A        *)
(* patched method is the sequence of the wrappers around the original, each   *)
(* named by the thread whose logger it logs to; an HTTP exchange through the  *)
(* method emits one http_exchange record per wrapper.                         *)

MaxThreads == 2

Threads == 1..MaxThreads

Libraries == {"httpx", "requests"}

\* The patched methods: httpx.Client.send, httpx.AsyncClient.send,
\* requests.Session.request; and the library each belongs to.
Methods == {"httpx.Client.send", "httpx.AsyncClient.send", "requests.Session.request"}

LibraryOf(method) == IF method = "requests.Session.request" THEN "requests" ELSE "httpx"

\* logging_settings of a constructor: enabled and network_logging.
LoggingSettings == [enabled : BOOLEAN, network_logging : BOOLEAN]

NoExchange == [method |-> "none", records |-> <<>>]

\* The lock is free (0) or held by a thread.
lock_is_free_always(holder) == TRUE

lock_is_free(holder) == holder = 0

LogInit ==
    /\ log_settings \in [Threads -> LoggingSettings]
    /\ importable \in SUBSET Libraries
    /\ tpc = [t \in Threads |-> "init"]
    /\ _instrumentation_lock = 0
    /\ _is_instrumented = FALSE
    /\ wrappers = [m \in Methods |-> <<>>]
    /\ exchange = NoExchange
    /\ SchemaIdle
    /\ JsonIdle
    /\ CiteIdle
    /\ RunIdle
    /\ RegIdle
    /\ PlogIdle
    /\ FileIdle

Goto(t, label) == tpc' = [tpc EXCEPT ![t] = label]

\* PromptLogger.__init__: returns when not enabled; builds the logger; calls
\* _instrument_network_libs when network_logging.
Construct(t) ==
    /\ tpc[t] = "init"
    /\ IF log_settings[t].enabled /\ log_settings[t].network_logging
       THEN Goto(t, "lock")
       ELSE Goto(t, "done")
    /\ UNCHANGED <<log_settings, importable, _instrumentation_lock, _is_instrumented,
                   wrappers, exchange, schemaVars, jsonVars, citeVars, runVars, regVars, plogVars, fileVars>>

\* with _instrumentation_lock: the thread waits until the lock is free.
Acquire(t) ==
    /\ tpc[t] = "lock"
    /\ lock_is_free(_instrumentation_lock)
    /\ _instrumentation_lock' = t
    /\ Goto(t, "check")
    /\ UNCHANGED <<log_settings, importable, _is_instrumented, wrappers, exchange,
                   schemaVars, jsonVars, citeVars, runVars, regVars, plogVars, fileVars>>

\* if _is_instrumented: return
CheckFlag(t) ==
    /\ tpc[t] = "check"
    /\ IF _is_instrumented THEN Goto(t, "unlock") ELSE Goto(t, "httpx")
    /\ UNCHANGED <<log_settings, importable, _instrumentation_lock, _is_instrumented,
                   wrappers, exchange, schemaVars, jsonVars, citeVars, runVars, regVars, plogVars, fileVars>>

\* A method wrapped once more, by a wrapper that logs to the logger of t.
Wrapped(w, method, t) == [w EXCEPT ![method] = Append(w[method], t)]

\* The httpx block: both send methods are wrapped, or ImportError is passed.
PatchHttpx(t) ==
    /\ tpc[t] = "httpx"
    /\ wrappers' = IF "httpx" \in importable
                   THEN Wrapped(Wrapped(wrappers, "httpx.Client.send", t),
                                "httpx.AsyncClient.send", t)
                   ELSE wrappers
    /\ Goto(t, "requests")
    /\ UNCHANGED <<log_settings, importable, _instrumentation_lock, _is_instrumented,
                   exchange, schemaVars, jsonVars, citeVars, runVars, regVars, plogVars, fileVars>>

\* The requests block: Session.request is wrapped, or ImportError is passed.
PatchRequests(t) ==
    /\ tpc[t] = "requests"
    /\ wrappers' = IF "requests" \in importable
                   THEN Wrapped(wrappers, "requests.Session.request", t)
                   ELSE wrappers
    /\ Goto(t, "flag")
    /\ UNCHANGED <<log_settings, importable, _instrumentation_lock, _is_instrumented,
                   exchange, schemaVars, jsonVars, citeVars, runVars, regVars, plogVars, fileVars>>

\* _is_instrumented = True
SetFlag(t) ==
    /\ tpc[t] = "flag"
    /\ _is_instrumented' = TRUE
    /\ Goto(t, "unlock")
    /\ UNCHANGED <<log_settings, importable, _instrumentation_lock, wrappers, exchange,
                   schemaVars, jsonVars, citeVars, runVars, regVars, plogVars, fileVars>>

\* The end of the with block.
Release(t) ==
    /\ tpc[t] = "unlock"
    /\ _instrumentation_lock' = 0
    /\ Goto(t, "done")
    /\ UNCHANGED <<log_settings, importable, _is_instrumented, wrappers, exchange,
                   schemaVars, jsonVars, citeVars, runVars, regVars, plogVars, fileVars>>

\* An HTTP exchange through a method of an importable library: every wrapper
\* around the method emits one http_exchange record.
HttpExchange(method) ==
    /\ LibraryOf(method) \in importable
    /\ exchange' = [method |-> method, records |-> wrappers[method]]
    /\ UNCHANGED <<log_settings, importable, tpc, _instrumentation_lock, _is_instrumented,
                   wrappers, schemaVars, jsonVars, citeVars, runVars, regVars, plogVars, fileVars>>

LogNext ==
    \/ \E t \in Threads :
          \/ Construct(t)
          \/ Acquire(t)
          \/ CheckFlag(t)
          \/ PatchHttpx(t)
          \/ PatchRequests(t)
          \/ SetFlag(t)
          \/ Release(t)
    \/ \E method \in Methods : HttpExchange(method)

SpecLogger == LogInit /\ [][LogNext]_vars

---------------------------------------------------------------------------
(* model_registry.py: the resolution of a provider and a model from the      *)
(* caller's string and the settings.  A Python string is the sequence of its  *)
(* characters, so that strip, lower and `token in string` are computed;       *)
(* Chr(word) is the sequence that spells word.                                *)

MaxDefaults == 2

\* The spelling of the words of the model.
Spelling ==
    ("" :> <<>>)
    @@ ("anthropic" :> <<"a", "n", "t", "h", "r", "o", "p", "i", "c">>)
    @@ ("chatgpt" :> <<"c", "h", "a", "t", "g", "p", "t">>)
    @@ ("claude" :> <<"c", "l", "a", "u", "d", "e">>)
    @@ ("claude-gemini" :> <<"c", "l", "a", "u", "d", "e", "-", "g", "e", "m", "i", "n", "i">>)
    @@ ("claude-opus-4-6" :> <<"c", "l", "a", "u", "d", "e", "-", "o", "p", "u", "s", "-", "4", "-", "6">>)
    @@ ("claude-sonnet-4-5" :> <<"c", "l", "a", "u", "d", "e", "-", "s", "o", "n", "n", "e", "t", "-", "4", "-", "5">>)
    @@ ("custom-grok-experimental" :> <<"c", "u", "s", "t", "o", "m", "-", "g", "r", "o", "k", "-", "e", "x", "p", "e", "r", "i", "m", "e", "n", "t", "a", "l">>)
    @@ ("gemini" :> <<"g", "e", "m", "i", "n", "i">>)
    @@ ("gemini-2.5-pro" :> <<"g", "e", "m", "i", "n", "i", "-", "2", ".", "5", "-", "p", "r", "o">>)
    @@ ("gemini-3-pro-preview" :> <<"g", "e", "m", "i", "n", "i", "-", "3", "-", "p", "r", "o", "-", "p", "r", "e", "v", "i", "e", "w">>)
    @@ ("gpt" :> <<"g", "p", "t">>)
    @@ ("gpt-4o" :> <<"g", "p", "t", "-", "4", "o">>)
    @@ ("gpt-5" :> <<"g", "p", "t", "-", "5">>)
    @@ ("gpt-5.2" :> <<"g", "p", "t", "-", "5", ".", "2">>)
    @@ ("grok" :> <<"g", "r", "o", "k">>)
    @@ ("grok-4" :> <<"g", "r", "o", "k", "-", "4">>)
    @@ ("mistral-7b" :> <<"m", "i", "s", "t", "r", "a", "l", "-", "7", "b">>)
    @@ ("my-gemini-claude" :> <<"m", "y", "-", "g", "e", "m", "i", "n", "i", "-", "c", "l", "a", "u", "d", "e">>)
    @@ ("o3" :> <<"o", "3">>)
    @@ ("o4" :> <<"o", "4">>)
    @@ ("openai" :> <<"o", "p", "e", "n", "a", "i">>)
    @@ ("openai/o4-mini" :> <<"o", "p", "e", "n", "a", "i", "/", "o", "4", "-", "m", "i", "n", "i">>)
    @@ ("perplexity" :> <<"p", "e", "r", "p", "l", "e", "x", "i", "t", "y">>)
    @@ ("r1-1776" :> <<"r", "1", "-", "1", "7", "7", "6">>)
    @@ ("sk-test" :> <<"s", "k", "-", "t", "e", "s", "t">>)
    @@ ("sonar" :> <<"s", "o", "n", "a", "r">>)
    @@ ("sonar-gpt" :> <<"s", "o", "n", "a", "r", "-", "g", "p", "t">>)
    @@ ("text-embedding-005" :> <<"t", "e", "x", "t", "-", "e", "m", "b", "e", "d", "d", "i", "n", "g", "-", "0", "0", "5">>)
    @@ ("xai" :> <<"x", "a", "i">>)
    @@ ("xai/grok-4-1" :> <<"x", "a", "i", "/", "g", "r", "o", "k", "-", "4", "-", "1">>)
    @@ ("authorization" :> <<"a", "u", "t", "h", "o", "r", "i", "z", "a", "t", "i", "o", "n">>)
    @@ ("Authorization" :> <<"A", "u", "t", "h", "o", "r", "i", "z", "a", "t", "i", "o", "n">>)
    @@ ("api-key" :> <<"a", "p", "i", "-", "k", "e", "y">>)
    @@ ("x-api-key" :> <<"x", "-", "a", "p", "i", "-", "k", "e", "y">>)
    @@ ("x-auth-token" :> <<"x", "-", "a", "u", "t", "h", "-", "t", "o", "k", "e", "n">>)
    @@ ("accept" :> <<"a", "c", "c", "e", "p", "t">>)
    @@ ("content-type" :> <<"c", "o", "n", "t", "e", "n", "t", "-", "t", "y", "p", "e">>)
    @@ ("secret-1" :> <<"s", "e", "c", "r", "e", "t", "-", "1">>)
    @@ ("secret-2" :> <<"s", "e", "c", "r", "e", "t", "-", "2">>)
    @@ ("application/json" :> <<"a", "p", "p", "l", "i", "c", "a", "t", "i", "o", "n", "/", "j", "s", "o", "n">>)
    @@ ("text/event-stream" :> <<"t", "e", "x", "t", "/", "e", "v", "e", "n", "t", "-", "s", "t", "r", "e", "a", "m">>)
    @@ ("text/event-stream; charset=utf-8" :> <<"t", "e", "x", "t", "/", "e", "v", "e", "n", "t", "-", "s", "t", "r", "e", "a", "m", ";", " ", "c", "h", "a", "r", "s", "e", "t", "=", "u", "t", "f", "-", "8">>)
    @@ ("REDACTED" :> <<"R", "E", "D", "A", "C", "T", "E", "D">>)

Chr(word) == Spelling[word]

UpperLetters == <<"A", "B", "C", "D", "E", "F", "G", "H", "I", "J", "K", "L", "M",
                  "N", "O", "P", "Q", "R", "S", "T", "U", "V", "W", "X", "Y", "Z">>

LowerLetters == <<"a", "b", "c", "d", "e", "f", "g", "h", "i", "j", "k", "l", "m",
                  "n", "o", "p", "q", "r", "s", "t", "u", "v", "w", "x", "y", "z">>

\* str.lower() and str.upper()
lower(s) ==
    [i \in DOMAIN s |->
        IF \E k \in DOMAIN UpperLetters : UpperLetters[k] = s[i]
        THEN LowerLetters[CHOOSE k \in DOMAIN UpperLetters : UpperLetters[k] = s[i]]
        ELSE s[i]]

upper(s) ==
    [i \in DOMAIN s |->
        IF \E k \in DOMAIN LowerLetters : LowerLetters[k] = s[i]
        THEN UpperLetters[CHOOSE k \in DOMAIN LowerLetters : LowerLetters[k] = s[i]]
        ELSE s[i]]

\* token in string
Contains(s, token) ==
    \E i \in 0..(Len(s) - Len(token)) : SubSeq(s, i + 1, i + Len(token)) = token

\* MODEL_PROVIDER_MAP: the keys that the requested strings of the model can
\* hit, with their providers.
MODEL_PROVIDER_MAP ==
    <<<<"gpt-5", "openai">>, <<"gpt-4o", "openai">>, <<"o3", "openai">>,
      <<"gemini-2.5-pro", "gemini">>, <<"text-embedding-005", "gemini">>,
      <<"claude-sonnet-4-5", "claude">>,
      <<"grok-4", "grok">>,
      <<"sonar", "perplexity">>, <<"r1-1776", "perplexity">>,
      <<"openai/o4-mini", "perplexity">>, <<"xai/grok-4-1", "perplexity">>>>

\* _PROVIDER_HINTS, in the order of the table.
PROVIDER_HINTS ==
    <<<<"openai", "openai">>, <<"gpt", "openai">>, <<"o3", "openai">>, <<"o4", "openai">>,
      <<"gemini", "gemini">>, <<"claude", "claude">>, <<"anthropic", "claude">>,
      <<"grok", "grok">>, <<"xai", "grok">>, <<"perplexity", "perplexity">>,
      <<"sonar", "perplexity">>>>

\* settings.PROVIDER_ALIASES: the names a provider is known by.
PROVIDER_ALIASES ==
    <<<<"openai", "openai">>, <<"chatgpt", "openai">>,
      <<"gemini", "gemini">>,
      <<"claude", "claude">>, <<"anthropic", "claude">>,
      <<"grok", "grok">>, <<"xai", "grok">>,
      <<"perplexity", "perplexity">>>>

\* dict.get(key) of a table of the three above: the value as a string, or the
\* empty string for None.
Lookup(table, key) ==
    IF \E i \in DOMAIN table : Chr(table[i][1]) = key
    THEN Chr(table[CHOOSE i \in DOMAIN table : Chr(table[i][1]) = key][2])
    ELSE <<>>

\* settings.canonical_provider_name: the provider a name is an alias of, or None.
canonical_provider_name(name) == Lookup(PROVIDER_ALIASES, lower(strip(name)))

\* x or y, for strings
Or(x, y) == IF x # <<>> THEN x ELSE y

ResolveReturn(provider_name, model) ==
    [kind |-> "return", provider |-> provider_name, model |-> model]

ModelResolutionError(message) ==
    [kind |-> "raise", type |-> "ModelResolutionError", message |-> message]

\* A value of a settings list: a string or something else.
PyStr(s) == [py |-> "str", chars |-> s]
PyInt == [py |-> "int"]
PyList(items) == [py |-> "list", items |-> items]

NotAList == [py |-> "NoneType"]

\* settings.get("providers", {}).get(provider, {})
ProviderConfig(s, provider_name) ==
    IF provider_name \in DOMAIN s.providers
    THEN s.providers[provider_name]
    ELSE [default_model |-> <<>>, api_key |-> <<>>]

_default_model(s, provider_name) ==
    LET model == ProviderConfig(s, provider_name).default_model
    IN  IF model # <<>>
        THEN [kind |-> "return", value |-> model]
        ELSE ModelResolutionError("No default model configured for provider")

\* settings.get_provider_api_key: the key the settings hold for the provider.
get_provider_api_key(s, provider_name) == ProviderConfig(s, provider_name).api_key

_provider_has_credentials(s, provider_name) == get_provider_api_key(s, provider_name) # <<>>

\* The first loop of select_default_provider.
RECURSIVE canonical_defaults(_, _)
canonical_defaults(defaults, acc) ==
    IF defaults = <<>> THEN acc
    ELSE LET item == Head(defaults)
             canonical == Or(canonical_provider_name(item.chars), lower(strip(item.chars)))
         IN  IF item.py # "str" THEN canonical_defaults(Tail(defaults), acc)
             ELSE IF \E i \in DOMAIN acc : acc[i] = canonical
                  THEN canonical_defaults(Tail(defaults), acc)
                  ELSE canonical_defaults(Tail(defaults), Append(acc, canonical))

\* A selection that takes the first default, with credentials or not.
select_default_provider_first(s) ==
    LET defaults == IF s.defaults.py # "list" THEN <<>> ELSE s.defaults.items
        cd == canonical_defaults(defaults, <<>>)
    IN  IF cd # <<>> THEN [kind |-> "return", value |-> cd[1]]
        ELSE ModelResolutionError("No default providers configured.")

select_default_provider(s) ==
    LET defaults == IF s.defaults.py # "list" THEN <<>> ELSE s.defaults.items
        cd == canonical_defaults(defaults, <<>>)
        with == {i \in DOMAIN cd : _provider_has_credentials(s, cd[i])}
    IN  IF with # {}
        THEN [kind |-> "return", value |-> cd[CHOOSE i \in with : \A j \in with : i <= j]]
        ELSE IF cd # <<>>
             THEN ModelResolutionError("No credentials found for any configured default provider")
             ELSE ModelResolutionError("No default providers configured.")

\* return provider, _default_model(settings, provider)
WithDefaultModel(s, provider_name) ==
    LET model == _default_model(s, provider_name)
    IN  IF model.kind = "raise" THEN model ELSE ResolveReturn(provider_name, model.value)

\* The first hint of the table, in its order, that the string contains.
FirstHint(requested_lower) ==
    LET hits == {i \in DOMAIN PROVIDER_HINTS : Contains(requested_lower, Chr(PROVIDER_HINTS[i][1]))}
    IN  IF hits = {} THEN <<>>
        ELSE Chr(PROVIDER_HINTS[CHOOSE i \in hits : \A j \in hits : i <= j][2])

\* A resolution that tries the hints before the map of known models.
resolve_requested_hints_first(s, requested_arg) ==
    LET requested == strip(requested_arg)
        requested_lower == lower(requested)
        provider_alias == canonical_provider_name(requested_lower)
        mapped_provider == Lookup(MODEL_PROVIDER_MAP, requested_lower)
        hinted == FirstHint(requested_lower)
    IN  IF provider_alias # <<>> THEN WithDefaultModel(s, provider_alias)
        ELSE IF hinted # <<>> THEN ResolveReturn(hinted, requested)
        ELSE IF mapped_provider # <<>> THEN ResolveReturn(mapped_provider, requested)
        ELSE ModelResolutionError("Unable to resolve provider for model")

\* resolve_provider_and_model for a requested string.
resolve_requested(s, requested_arg) ==
    LET requested == strip(requested_arg)
        requested_lower == lower(requested)
        provider_alias == canonical_provider_name(requested_lower)
        mapped_provider == Lookup(MODEL_PROVIDER_MAP, requested_lower)
        hinted == FirstHint(requested_lower)
    IN  IF provider_alias # <<>> THEN WithDefaultModel(s, provider_alias)
        ELSE IF mapped_provider # <<>> THEN ResolveReturn(mapped_provider, requested)
        ELSE IF hinted # <<>> THEN ResolveReturn(hinted, requested)
        ELSE ModelResolutionError("Unable to resolve provider for model")

NoModel == [py |-> "NoneType"]

resolve_provider_and_model(s, requested_arg) ==
    IF requested_arg = NoModel
    THEN LET selected == select_default_provider(s)
         IN  IF selected.kind = "raise" THEN selected
             ELSE WithDefaultModel(s, selected.value)
    ELSE resolve_requested(s, requested_arg.chars)

\* The requested strings: names of providers, known models, strings with
\* hints, strings with nothing known; each also padded and in upper case.
RequestedWords ==
    {"chatgpt", "openai", "anthropic", "xai", "grok", "perplexity", "gemini",
     "gpt-5", "o3", "sonar", "xai/grok-4-1", "openai/o4-mini", "text-embedding-005",
     "r1-1776", "custom-grok-experimental", "my-gemini-claude", "claude-gemini",
     "sonar-gpt", "mistral-7b", ""}

Padded(s) == <<" ">> \o s \o <<" ">>

Variants(s) == {s, Padded(s), upper(s), Padded(upper(s))}

RequestedModels == {PyStr(v) : v \in UNION {Variants(Chr(w)) : w \in RequestedWords}}

\* The providers the settings configure, each with or without a default
\* model and an API key.
ConfiguredProviders == {Chr("openai"), Chr("gemini"), Chr("claude")}

DefaultModelOf(provider_name) ==
    IF provider_name = Chr("openai") THEN Chr("gpt-5.2")
    ELSE IF provider_name = Chr("gemini") THEN Chr("gemini-3-pro-preview")
    ELSE Chr("claude-opus-4-6")

ProviderSettings ==
    {[p \in ConfiguredProviders |->
        [default_model |-> IF p \in models THEN DefaultModelOf(p) ELSE <<>>,
         api_key |-> IF p \in keys THEN Chr("sk-test") ELSE <<>>]] :
     models \in SUBSET ConfiguredProviders, keys \in SUBSET ConfiguredProviders}

DefaultItems ==
    {PyStr(Chr("openai")), PyStr(Chr("chatgpt")), PyStr(Padded(upper(Chr("openai")))),
     PyStr(Chr("gemini")), PyStr(Chr("grok")), PyInt}

\* The defaults of tests/test_model_registry.py
BaseDefaults == PyList(<<PyStr(Chr("gemini")), PyStr(Chr("openai")), PyStr(Chr("claude"))>>)

RegInit ==
    /\ \/ /\ requested_model = NoModel
          /\ \E defaults \in {PyList(items) : items \in ListsUpTo(DefaultItems, MaxDefaults)}
                                \cup {NotAList} :
             \E providers \in ProviderSettings :
                settings = [defaults |-> defaults, providers |-> providers]
       \/ /\ requested_model \in RequestedModels
          /\ \E providers \in ProviderSettings :
                settings = [defaults |-> BaseDefaults, providers |-> providers]
    /\ resolved = NotCalled
    /\ SchemaIdle
    /\ JsonIdle
    /\ CiteIdle
    /\ RunIdle
    /\ LogIdle
    /\ PlogIdle
    /\ FileIdle

CallResolve ==
    /\ resolved = NotCalled
    /\ resolved' = resolve_provider_and_model(settings, requested_model)
    /\ UNCHANGED <<settings, requested_model, schemaVars, jsonVars, citeVars, runVars, logVars,
                   plogVars, fileVars>>

RegNext == CallResolve

SpecRegistry == RegInit /\ [][RegNext]_vars

---------------------------------------------------------------------------
(* adapters/logging_adapter.py: PromptLogger and the record of an HTTP       *)
(* exchange.  A dict is the sequence of its <<key, value>> items in           *)
(* insertion order; a line of the log file is the sequence of its tokens.     *)

MaxEvents == 2

OrderedDict(items) == [t |-> "dict", items |-> items]

\* dict.setdefault(key, value)
setdefault(d, key, value) ==
    IF \E i \in DOMAIN d.items : d.items[i][1] = key THEN d
    ELSE OrderedDict(Append(d.items, <<key, value>>))

\* The tokens of a line: leading spaces, a scalar (a key is a string), and
\* the punctuation of JSON.
Indent(n) == [indent |-> n]
Lit(v) == [scalar |-> v]
Punct(c) == [punct |-> c]

\* json.dumps(..., indent=2) of line 69
indent == 2

RECURSIVE dumps(_, _), dumps_items(_, _, _)

\* The lines of json.dumps(x, indent=indent) for a value nested level deep.
dumps(x, level) ==
    IF x.t # "dict" THEN << <<Lit(x)>> >>
    ELSE IF x.items = <<>> THEN << <<Punct("{"), Punct("}")>> >>
    ELSE << <<Punct("{")>> >>
         \o dumps_items(x.items, 1, level + 1)
         \o << <<Indent(level * indent), Punct("}")>> >>

dumps_items(items, i, level) ==
    IF i > Len(items) THEN <<>>
    ELSE LET vl == dumps(items[i][2], level)
             head == <<Indent(level * indent), Lit(Str(items[i][1])), Punct(":")>> \o vl[1]
             body == <<head>> \o Tail(vl)
             sep == IF i < Len(items) THEN <<Punct(",")>> ELSE <<>>
         IN  [body EXCEPT ![Len(body)] = @ \o sep] \o dumps_items(items, i + 1, level)

\* json.loads(line): the value a line parses to, or a JSONDecodeError.
JSONDecodeError == [ok |-> FALSE]
Parsed(v, n) == [ok |-> TRUE, val |-> v, next |-> n]

RECURSIVE parse_value(_, _), parse_members(_, _, _)

parse_value(t, i) ==
    IF i > Len(t) THEN JSONDecodeError
    ELSE IF "scalar" \in DOMAIN t[i] THEN Parsed(t[i].scalar, i + 1)
    ELSE IF t[i] # Punct("{") THEN JSONDecodeError
    ELSE IF i < Len(t) /\ t[i + 1] = Punct("}") THEN Parsed(OrderedDict(<<>>), i + 2)
    ELSE parse_members(t, i + 1, <<>>)

parse_members(t, i, acc) ==
    IF \/ i + 1 > Len(t)
       \/ "scalar" \notin DOMAIN t[i]
       \/ t[i].scalar.t # "str"
       \/ t[i + 1] # Punct(":")
    THEN JSONDecodeError
    ELSE LET v == parse_value(t, i + 2)
         IN  IF ~v.ok THEN JSONDecodeError
             ELSE LET acc2 == Append(acc, <<t[i].scalar.v, v.val>>)
                  IN  IF v.next > Len(t) THEN JSONDecodeError
                      ELSE IF t[v.next] = Punct(",") THEN parse_members(t, v.next + 1, acc2)
                      ELSE IF t[v.next] = Punct("}") THEN Parsed(OrderedDict(acc2), v.next + 1)
                      ELSE JSONDecodeError

Significant(line) == SelectSeq(line, LAMBDA tok : "indent" \notin DOMAIN tok)

loads(line) ==
    LET t == Significant(line)
        r == parse_value(t, 1)
    IN  IF r.ok /\ r.next = Len(t) + 1 THEN r ELSE JSONDecodeError

\* time.time() and str(uuid4()): the clock ticks with every payload, and the
\* n-th identifier is fresh.
UUIDs == <<"uuid-1", "uuid-2", "uuid-3", "uuid-4", "uuid-5">>
time == Num(Len(emitted) + 1)
uuid4 == Str(UUIDs[Len(emitted) + 1])

\* text[:n]
Slice(s, n) == SubSeq(s, 1, IF Len(s) < n THEN Len(s) ELSE n)

\* PromptLogger._emit: nothing when logging is off; otherwise the payload
\* gets its timestamp and the handler writes the message and a newline.
Written(payload) == dumps(setdefault(payload, "ts", time), 0)

_emit(payload) ==
    IF ~enabled
    THEN /\ emitted' = Append(emitted, payload)
         /\ logfile' = logfile
    ELSE /\ emitted' = Append(emitted, setdefault(payload, "ts", time))
         /\ logfile' = logfile \o Written(payload)

PlogInit ==
    /\ enabled \in BOOLEAN
    /\ logfile = <<>>
    /\ emitted = <<>>
    /\ wrapped = [kind |-> "none"]
    /\ SchemaIdle
    /\ JsonIdle
    /\ CiteIdle
    /\ RunIdle
    /\ LogIdle
    /\ RegIdle
    /\ FileIdle

\* The arguments of the model's calls.
ArgDicts == {OrderedDict(<<>>), OrderedDict(<<<<"prompt", Str("hi")>>>>)}
PayloadDicts == {OrderedDict(<<>>),
                 OrderedDict(<<<<"model", Str("gpt-5")>>, <<"options", OrderedDict(<<>>)>>>>)}
EventIds == {Str(UUIDs[n]) : n \in 1..2}
Previews == {Chr(""), Chr("gpt-5")}
Counts == {Num(0), Num(1)}
ErrorTypes == {"ProviderError", "ValueError"}

log_start(args_arg, adapter_payload) ==
    /\ Len(emitted) < MaxEvents
    /\ _emit(OrderedDict(<<<<"event", Str("run_prompt.start")>>,
                           <<"event_id", uuid4>>,
                           <<"args", args_arg>>,
                           <<"adapter_payload", adapter_payload>>>>))
    /\ UNCHANGED <<enabled, wrapped, schemaVars, jsonVars, citeVars, runVars, logVars, regVars,
                   fileVars>>

log_end(event_id, started_at, result_preview, citations_count) ==
    /\ Len(emitted) < MaxEvents
    /\ LET ended_at == time
       IN  _emit(OrderedDict(<<<<"event", Str("run_prompt.end")>>,
                               <<"event_id", event_id>>,
                               <<"started_at", started_at>>,
                               <<"ended_at", ended_at>>,
                               <<"elapsed_seconds", Num(ended_at.v - started_at.v)>>,
                               <<"result_preview", Str(Slice(result_preview, 5000))>>,
                               <<"citations_count", citations_count>>>>))
    /\ UNCHANGED <<enabled, wrapped, schemaVars, jsonVars, citeVars, runVars, logVars, regVars,
                   fileVars>>

log_error(event_id, started_at, error, context) ==
    /\ Len(emitted) < MaxEvents
    /\ LET ended_at == time
       IN  _emit(OrderedDict(<<<<"event", Str("run_prompt.error")>>,
                               <<"event_id", event_id>>,
                               <<"started_at", started_at>>,
                               <<"ended_at", ended_at>>,
                               <<"elapsed_seconds", Num(ended_at.v - started_at.v)>>,
                               <<"error_type", Str(error)>>,
                               <<"error", Str("message")>>,
                               <<"context", context>>>>))
    /\ UNCHANGED <<enabled, wrapped, schemaVars, jsonVars, citeVars, runVars, logVars, regVars,
                   fileVars>>

PlogNext ==
    \/ \E a \in ArgDicts, p \in PayloadDicts : log_start(a, p)
    \/ \E id \in EventIds, preview \in Previews, n \in Counts : log_end(id, Num(0), preview, n)
    \/ \E id \in EventIds, error \in ErrorTypes, c \in ArgDicts : log_error(id, Num(0), error, c)

SpecPromptLogger == PlogInit /\ [][PlogNext]_vars

---------------------------------------------------------------------------
(* files/extractor.py: collect_file_paths.  A path is the sequence of its     *)
(* components, "/" first when it is absolute; the model's file system has a   *)
(* working directory, a home directory and one symbolic link.                 *)

cwd == <<"/", "w">>
home == <<"/", "home">>
Symlinks == (<<"/", "w", "link">> :> <<"/", "w", "a.txt">>)

IsAbsolute(p) == p # <<>> /\ p[1] = "/"

\* Path.expanduser()
expanduser(p) == IF p # <<>> /\ p[1] = "~" THEN home \o Tail(p) ELSE p

\* Path.resolve(): the path is made absolute, "." and ".." are removed and
\* the symbolic links are followed.
RECURSIVE resolve_from(_, _)
resolve_from(done, rest) ==
    IF rest = <<>> THEN done
    ELSE IF Head(rest) = "." THEN resolve_from(done, Tail(rest))
    ELSE IF Head(rest) = ".."
         THEN resolve_from(IF Len(done) > 1 THEN SubSeq(done, 1, Len(done) - 1) ELSE done,
                           Tail(rest))
    ELSE LET next == Append(done, Head(rest))
         IN  resolve_from(IF next \in DOMAIN Symlinks THEN Symlinks[next] ELSE next, Tail(rest))

resolve(p) == IF IsAbsolute(p) THEN resolve_from(<<"/">>, Tail(p)) ELSE resolve_from(cwd, p)

\* A value of the caller: a str or a Path, of the same spelling.
PyPath(type, p) == [t |-> type, path |-> p]
NoValue == [t |-> "none"]

\* values: the file argument, then files (one value, or the entries of an
\* iterable).
collect_values(file_arg, files_arg) ==
    (IF file_arg.t # "none" THEN <<file_arg>> ELSE <<>>)
    \o (IF files_arg.t = "none" THEN <<>>
        ELSE IF files_arg.t \in {"str", "Path"} THEN <<files_arg>>
        ELSE files_arg.s)

\* A loop that keeps every value, seen or not.
RECURSIVE dedupe_keeps_all(_, _, _, _)
dedupe_keeps_all(values, i, seen, acc) ==
    IF i > Len(values) THEN acc
    ELSE LET path == resolve(expanduser(values[i].path))
         IN  dedupe_keeps_all(values, i + 1, seen \cup {path}, Append(acc, path))

\* for value in values: the resolved path is kept unless its string was seen.
RECURSIVE dedupe(_, _, _, _)
dedupe(values, i, seen, acc) ==
    IF i > Len(values) THEN acc
    ELSE LET path == resolve(expanduser(values[i].path))
         IN  IF path \in seen THEN dedupe(values, i + 1, seen, acc)
             ELSE dedupe(values, i + 1, seen \cup {path}, Append(acc, path))

collect_file_paths(file_arg, files_arg) == dedupe(collect_values(file_arg, files_arg), 1, {}, <<>>)

\* The spellings and the values of the model.
Spellings ==
    {<<"a.txt">>, <<".", "a.txt">>, <<"/", "w", "a.txt">>, <<"link">>,
     <<"sub", "..", "b.txt">>, <<"~", "b.txt">>}
PathValues == {PyPath(type, p) : type \in {"str", "Path"}, p \in Spellings}

FileInit ==
    /\ file \in {NoValue} \cup PathValues
    /\ files \in {NoValue} \cup PathValues \cup {L(s) : s \in ListsUpTo(PathValues, MaxFiles)}
    /\ file_paths = NoValue
    /\ SchemaIdle
    /\ JsonIdle
    /\ CiteIdle
    /\ RunIdle
    /\ LogIdle
    /\ RegIdle
    /\ PlogIdle

CallCollectFilePaths ==
    /\ file_paths = NoValue
    /\ file_paths' = L(collect_file_paths(file, files))
    /\ UNCHANGED <<file, files, schemaVars, jsonVars, citeVars, runVars, logVars, regVars,
                   plogVars>>

FileNext == CallCollectFilePaths

SpecFiles == FileInit /\ [][FileNext]_vars

---------------------------------------------------------------------------
(* adapters/logging_adapter.py: the wrappers of the instrumented HTTP methods *)
(* and the record of an exchange.  Headers are the sequence of their          *)
(* <<name, value>> items, names and values being strings.                     *)

\* _safe_header without key.lower()
_safe_header_case_sensitive(key, value) ==
    IF key \in {Chr("authorization"), Chr("api-key"), Chr("x-api-key"), Chr("x-auth-token")}
    THEN Str(Chr("REDACTED"))
    ELSE Str(value)

_safe_header(key, value) ==
    IF lower(key) \in {Chr("authorization"), Chr("api-key"), Chr("x-api-key"), Chr("x-auth-token")}
    THEN Str(Chr("REDACTED"))
    ELSE Str(value)

_sanitize_headers(headers) ==
    OrderedDict([i \in DOMAIN headers |->
                    <<headers[i][1], _safe_header(headers[i][1], headers[i][2])>>])

\* A body: bytes that decode as UTF-8 or do not, or None.
Bytes(v, utf8) == [t |-> "bytes", v |-> v, utf8 |-> utf8]

_safe_body(body, is_stream) ==
    IF is_stream THEN Str("<streaming_content>")
    ELSE IF body.t = "bytes"
    THEN IF body.utf8 THEN Str(body.v) ELSE Str("<binary_content>")
    ELSE body

\* headers.get(name, default) of a response, names compared without case.
HeaderGet(headers, name, default) ==
    IF \E i \in DOMAIN headers : lower(headers[i][1]) = name
    THEN headers[CHOOSE i \in DOMAIN headers : lower(headers[i][1]) = name][2]
    ELSE default

StartsWith(s, prefix) == Len(s) >= Len(prefix) /\ SubSeq(s, 1, Len(prefix)) = prefix

\* What the body of a logging function comes to: the payload it hands to
\* _emit, or the exception it raises before.
Emits(payload) == [exc |-> "none", payload |-> payload]
LogRaises(exc) == [exc |-> exc, payload |-> OrderedDict(<<>>)]

ExchangePayload(library, request, http_response, request_body, response_body) ==
    OrderedDict(<<<<"event", Str("http_exchange")>>,
                  <<"library", Str(library)>>,
                  <<"url", Str(request.url)>>,
                  <<"method", Str(request.method)>>,
                  <<"status_code", Num(http_response.status_code)>>,
                  <<"request_headers", _sanitize_headers(request.headers)>>,
                  <<"request_body", request_body>>,
                  <<"response_headers", _sanitize_headers(http_response.headers)>>,
                  <<"response_body", response_body>>>>)

\* The try block of _log_httpx_exchange.  response.content of a response that
\* was not read raises ResponseNotRead; fault is an exception of the
\* environment, "none" when there is none.
httpx_try(request, http_response, fault) ==
    LET request_body == _safe_body(request.content, FALSE)
        is_stream ==
            \/ (~http_response.is_stream_consumed /\ ~http_response.is_closed)
            \/ StartsWith(HeaderGet(http_response.headers, Chr("content-type"), <<>>),
                          Chr("text/event-stream"))
    IN  IF fault = "request.content" THEN LogRaises(fault)
        ELSE IF ~http_response.read THEN LogRaises("ResponseNotRead")
        ELSE IF fault # "none" THEN LogRaises(fault)
        ELSE Emits(ExchangePayload("httpx", request, http_response, request_body,
                                   _safe_body(http_response.content, is_stream)))

\* The try block of _log_requests_exchange.  _content of a response is never
\* None, so response.content is read, which consumes a stream not yet read.
requests_try(request, http_response, fault) ==
    LET request_body == _safe_body(request.content, FALSE)
    IN  IF fault # "none" THEN LogRaises(fault)
        ELSE Emits(ExchangePayload("requests", request, http_response, request_body,
                                   _safe_body(http_response.content, FALSE)))

\* An except clause that lets the exception go on.
except_Exception_pass_reraises(r) == r

\* except Exception: pass
except_Exception_pass(r) == IF r.exc # "none" THEN [r EXCEPT !.exc = "swallowed"] ELSE r

_log_httpx_exchange(request, http_response, fault) ==
    except_Exception_pass(httpx_try(request, http_response, fault))

_log_requests_exchange(request, http_response, fault) ==
    except_Exception_pass(requests_try(request, http_response, fault))

\* The headers, requests and responses of the model.
RECURSIVE HeaderItems(_)
HeaderItems(choices) ==
    IF choices = <<>> THEN {<<>>}
    ELSE {h \o rest : h \in {<<>>} \cup {<<<<choices[1][1], v>>>> : v \in choices[1][2]},
                      rest \in HeaderItems(Tail(choices))}

RequestHeaders ==
    HeaderItems(<<<<Chr("Authorization"), {Chr("secret-1"), Chr("secret-2")}>>,
                  <<upper(Chr("x-api-key")), {Chr("secret-1"), Chr("secret-2")}>>,
                  <<Chr("accept"), {Chr("application/json")}>>>>)

ResponseHeaders ==
    {<<>>}
    \cup {<<<<Chr("content-type"), c>>>> \o h :
            c \in {Chr("application/json"), Chr("text/event-stream; charset=utf-8")},
            h \in HeaderItems(<<<<Chr("x-auth-token"), {Chr("secret-1"), Chr("secret-2")}>>>>)}

HttpRequests ==
    [url : {"https://api.example/v1"}, method : {"POST"}, headers : RequestHeaders,
     content : {Bytes("{}", TRUE)}]

\* A response that was read and closed, or a stream that was not.
HttpResponses ==
    {[status_code |-> 200, headers |-> h, content |-> Bytes(b[1], b[2]), read |-> b[3],
      is_stream_consumed |-> b[3], is_closed |-> b[3]] :
        h \in ResponseHeaders,
        b \in {<<"ok", TRUE, TRUE>>, <<"raw", FALSE, TRUE>>, <<"ok", TRUE, FALSE>>}}

Faults == {"none", "request.content", "_emit"}

\* What the original method does: it returns the response object or raises.
OriginalReturns == [kind |-> "return", object |-> "response"]
Originals == {OriginalReturns} \cup {[kind |-> "raise", exc |-> x] : x \in Exceptions}

ExchangeInit ==
    /\ enabled \in BOOLEAN
    /\ logfile = <<>>
    /\ emitted = <<>>
    /\ wrapped = [kind |-> "none"]
    /\ SchemaIdle
    /\ JsonIdle
    /\ CiteIdle
    /\ RunIdle
    /\ LogIdle
    /\ RegIdle
    /\ FileIdle

\* A wrapper: the original is called outside any try, then the logging
\* function, then the response is returned.
Instrumented(method, request, http_response, original, fault, logged) ==
    /\ IF original.kind = "raise"
       THEN /\ wrapped' = [kind |-> "call", method |-> method, request |-> request,
                           response |-> http_response, original |-> original, fault |-> fault,
                           outcome |-> original]
            /\ UNCHANGED <<logfile, emitted>>
       ELSE /\ wrapped' = [kind |-> "call", method |-> method, request |-> request,
                           response |-> http_response, original |-> original, fault |-> fault,
                           outcome |-> IF logged.exc \in {"none", "swallowed"}
                                       THEN [kind |-> "return", object |-> original.object]
                                       ELSE [kind |-> "raise", exc |-> logged.exc]]
            /\ IF logged.exc = "none" THEN _emit(logged.payload)
               ELSE UNCHANGED <<logfile, emitted>>
    /\ UNCHANGED <<enabled, schemaVars, jsonVars, citeVars, runVars, logVars, regVars, fileVars>>

_instrumented_httpx_send ==
    /\ wrapped = [kind |-> "none"]
    /\ \E method \in {"httpx.Client.send", "httpx.AsyncClient.send"}, request \in HttpRequests,
       http_response \in HttpResponses, original \in Originals, fault \in Faults :
        Instrumented(method, request, http_response, original, fault,
                     _log_httpx_exchange(request, http_response, fault))

_instrumented_requests_request ==
    /\ wrapped = [kind |-> "none"]
    /\ \E request \in HttpRequests, http_response \in HttpResponses, original \in Originals,
       fault \in Faults :
        Instrumented("requests.Session.request", request, http_response, original, fault,
                     _log_requests_exchange(request, http_response, fault))

ExchangeNext == _instrumented_httpx_send \/ _instrumented_requests_request

SpecExchange == ExchangeInit /\ [][ExchangeNext]_vars

---------------------------------------------------------------------------
(* Calls of the schema functions on the caller's object S.  S is object 1  *)
(* of the store the call starts with; the call leaves S and the returned   *)
(* object.                                                                 *)

SchemaInit ==
    /\ schema \in SchemasUpTo(MaxDepth)
    /\ input = schema
    /\ op = "none"
    /\ kset = {}
    /\ result = None
    /\ JsonIdle
    /\ CiteIdle
    /\ RunIdle
    /\ LogIdle
    /\ RegIdle
    /\ PlogIdle
    /\ FileIdle

Returned(call, name, keys) ==
    /\ UNCHANGED <<jsonVars, citeVars, runVars, logVars, regVars, plogVars, fileVars>>
    /\ input' = schema
    /\ schema' = call.st[1]
    /\ result' = call.st[call.ref]
    /\ op' = name
    /\ kset' = keys

CallEnforceClosedObjects ==
    Returned(enforce_closed_objects(<<schema>>, 1), "enforce_closed_objects", {})

CallStripSchemaKeywords ==
    \E keys \in KeySets :
        Returned(strip_schema_keywords(<<schema>>, 1, keys), "strip_schema_keywords", keys)

CallMakeNullable ==
    Returned(_make_nullable(<<schema>>, 1), "_make_nullable", {})

CallEnforceRequired ==
    Returned(enforce_openai_required_all_properties(<<schema>>, 1),
             "enforce_openai_required_all_properties", {})

CallOpenAISchema ==
    Returned(openai_response_schema(<<schema>>, 1), "openai_response_schema", {})

CallAnthropicSchema ==
    Returned(anthropic_response_schema(<<schema>>, 1), "anthropic_response_schema", {})

CallPerplexitySchema ==
    Returned(perplexity_response_schema(<<schema>>, 1), "perplexity_response_schema", {})

SchemaNext ==
    \/ CallEnforceClosedObjects
    \/ CallStripSchemaKeywords
    \/ CallMakeNullable
    \/ CallEnforceRequired
    \/ CallOpenAISchema
    \/ CallAnthropicSchema
    \/ CallPerplexitySchema

SpecSchema == SchemaInit /\ [][SchemaNext]_vars

---------------------------------------------------------------------------
(* What the claims about the schema functions speak of. *)

\* Every value inside x, x included, at every depth.
RECURSIVE SubValues(_)
SubValues(x) ==
    {x} \cup
    (IF IsDict(x) THEN UNION {SubValues(x.m[k]) : k \in DOMAIN x.m}
     ELSE IF IsList(x) THEN UNION {SubValues(x.s[i]) : i \in DOMAIN x.s}
     ELSE {})

\* An object-like node: type "object", a type list containing "object", or a
\* mapping with one of the four object keywords.
ObjectLikeNode(n) ==
    /\ IsDict(n)
    /\ \/ ("type" \in DOMAIN n.m /\ n.m["type"] = Str("object"))
       \/ ("type" \in DOMAIN n.m /\ IsList(n.m["type"])
              /\ Str("object") \in Range(n.m["type"].s))
       \/ \E k \in {"properties", "required", "patternProperties", "additionalProperties"} :
              k \in DOMAIN n.m

HasPropertiesMap(n) ==
    IsDict(n) /\ "properties" \in DOMAIN n.m /\ IsDict(n.m["properties"])

\* Nullable as the claims and tests/test_schema.py (_is_nullable) state it.
IsNullable(n) ==
    /\ IsDict(n)
    /\ \/ ("type" \in DOMAIN n.m /\ n.m["type"] = Str("null"))
       \/ ("type" \in DOMAIN n.m /\ IsList(n.m["type"])
              /\ Str("null") \in Range(n.m["type"].s))
       \/ ("anyOf" \in DOMAIN n.m /\ IsList(n.m["anyOf"])
              /\ \E i \in DOMAIN n.m["anyOf"].s :
                     n.m["anyOf"].s[i] = D("type" :> Str("null")))

\* The names of a node's required list.
RequiredNames(n) ==
    IF "required" \in DOMAIN n.m /\ IsList(n.m["required"])
    THEN Range(n.m["required"].s) ELSE {}

PropertyNames(n) == {Str(k) : k \in DOMAIN n.m["properties"].m}

\* The schema node of the output that stands for the input's node a, where
\* the output holds b in a's place: b itself, or the first alternative of b
\* when the input's untyped node was wrapped as anyOf: [a, null].
Core(a, b) ==
    IF /\ IsDict(a) /\ IsDict(b)
       /\ DOMAIN b.m = {"anyOf"} /\ "anyOf" \notin DOMAIN a.m
       /\ IsList(b.m["anyOf"]) /\ Len(b.m["anyOf"].s) = 2
    THEN b.m["anyOf"].s[1]
    ELSE b

\* The pairs <<a, b>> of a schema node a of the input and the node b of the
\* output in its place: the roots, and the nodes under properties, items,
\* additionalProperties, anyOf and oneOf (a properties map is no node).
RECURSIVE NodePairs(_, _)
NodePairs(a, b) ==
    IF ~(IsDict(a) /\ IsDict(b)) THEN {}
    ELSE
        LET Under(k) ==
                IF k \in DOMAIN a.m /\ k \in DOMAIN b.m
                THEN NodePairs(a.m[k], b.m[k]) ELSE {}
            Listed(ka, kb) ==
                IF /\ ka \in DOMAIN a.m /\ kb \in DOMAIN b.m
                   /\ IsList(a.m[ka]) /\ IsList(b.m[kb])
                THEN UNION {NodePairs(a.m[ka].s[i], b.m[kb].s[i]) :
                                i \in DOMAIN a.m[ka].s \cap DOMAIN b.m[kb].s}
                ELSE {}
        IN  {<<a, b>>}
            \cup (IF HasPropertiesMap(a) /\ HasPropertiesMap(b)
                  THEN UNION {NodePairs(a.m["properties"].m[k],
                                        Core(a.m["properties"].m[k], b.m["properties"].m[k])) :
                                  k \in DOMAIN a.m["properties"].m \cap DOMAIN b.m["properties"].m}
                  ELSE {})
            \cup Under("items") \cup Under("additionalProperties")
            \cup Listed("anyOf", "anyOf")
            \cup Listed("oneOf", IF "oneOf" \in DOMAIN b.m THEN "oneOf" ELSE "anyOf")

SchemaNodes(x) == {p[1] : p \in NodePairs(x, x)}

\* C1: enforce_closed_objects, strip_schema_keywords,
\* enforce_openai_required_all_properties, _make_nullable and the three
\* provider builders leave the caller's schema equal to its value before the
\* call.
C1_CallerSchemaUnchanged == op # "none" => schema = input

\* C1's case: a call has returned an object that differs from its argument.
C1_Witness ==
    /\ op = "enforce_openai_required_all_properties"
    /\ result # input

\* C2: in the result of enforce_closed_objects every object-like node, at
\* every depth, has additionalProperties = false.
C2_ClosedAtEveryDepth ==
    op = "enforce_closed_objects" =>
        \A n \in SubValues(result) :
            ObjectLikeNode(n) =>
                /\ "additionalProperties" \in DOMAIN n.m
                /\ n.m["additionalProperties"] = Bool("False")

\* C2's case: an object-like node inside a list, inside a properties map, that
\* the input left open.
C2_Witness ==
    /\ op = "enforce_closed_objects"
    /\ \E n \in SubValues(result) :
          /\ HasPropertiesMap(n)
          /\ \E k \in DOMAIN n.m["properties"].m :
                LET p == n.m["properties"].m[k]
                IN  /\ IsDict(p) /\ "anyOf" \in DOMAIN p.m /\ IsList(p.m["anyOf"])
                    /\ \E i \in DOMAIN p.m["anyOf"].s :
                          /\ ObjectLikeNode(p.m["anyOf"].s[i])
                          /\ p.m["anyOf"].s[i] \notin SubValues(input)

\* C3: in the result of enforce_openai_required_all_properties every
\* object-like node with a properties map lists exactly the keys of
\* properties in required, every property that was not in the node's original
\* required list is nullable, and an object-like node without a properties map
\* has required = [] when it had none.
C3_RequiredAllNullableOptionals ==
    op = "enforce_openai_required_all_properties" =>
        /\ \A n \in SchemaNodes(result) :
              ObjectLikeNode(n) =>
                  /\ "required" \in DOMAIN n.m
                  /\ HasPropertiesMap(n) =>
                        /\ IsList(n.m["required"])
                        /\ RequiredNames(n) = PropertyNames(n)
        /\ \A p \in NodePairs(input, result) :
              LET a == p[1]
                  b == p[2]
              IN  /\ (ObjectLikeNode(a) /\ HasPropertiesMap(a)) =>
                        \A k \in DOMAIN a.m["properties"].m :
                            Str(k) \notin RequiredNames(a) =>
                                /\ HasPropertiesMap(b)
                                /\ k \in DOMAIN b.m["properties"].m
                                /\ IsNullable(b.m["properties"].m[k])
                  /\ (/\ ObjectLikeNode(a) /\ ~HasPropertiesMap(a)
                      /\ "required" \notin DOMAIN a.m /\ ObjectLikeNode(b)) =>
                        b.m["required"] = L(<<>>)

\* The schema of a Pydantic output model: an object with a properties map.
IsModelSchema(x) ==
    /\ IsDict(x) /\ "type" \in DOMAIN x.m /\ x.m["type"] = Str("object")
    /\ HasPropertiesMap(x)

\* C4: the schema openai_response_schema returns for an output model has, at
\* the top level, required listing exactly the keys of properties, every
\* originally optional property nullable, and additionalProperties = false.
C4_OpenAITopLevel ==
    (op = "openai_response_schema" /\ IsModelSchema(input) /\ ~IsRaise(result)) =>
        /\ HasPropertiesMap(result)
        /\ RequiredNames(result) = PropertyNames(result)
        /\ \A k \in DOMAIN input.m["properties"].m :
              Str(k) \notin RequiredNames(input) =>
                  /\ k \in DOMAIN result.m["properties"].m
                  /\ IsNullable(result.m["properties"].m[k])
        /\ "additionalProperties" \in DOMAIN result.m
        /\ result.m["additionalProperties"] = Bool("False")

\* A step of a path into a value: a key of a mapping or an index of a list.
Key(k) == [key |-> k]
Idx(i) == [idx |-> i]

\* What a value is at its own level: a scalar itself, a mapping or a list by
\* its kind.
Shape(x) == IF IsDict(x) THEN "dict" ELSE IF IsList(x) THEN "list" ELSE x

\* Every <<path, shape>> of x: one entry per value inside x, x included.
RECURSIVE Entries(_, _)
Entries(x, path) ==
    {<<path, Shape(x)>>} \cup
    (IF IsDict(x)
     THEN UNION {Entries(x.m[k], Append(path, Key(k))) : k \in DOMAIN x.m}
     ELSE IF IsList(x)
     THEN UNION {Entries(x.s[i], Append(path, Idx(i))) : i \in DOMAIN x.s}
     ELSE {})

\* A path that goes through no key of keys.
Avoids(path, keys) ==
    \A i \in DOMAIN path : "key" \in DOMAIN path[i] => path[i].key \notin keys

\* No mapping inside x, at any depth, has a key of keys.
NoKeyOf(x, keys) ==
    \A n \in SubValues(x) : IsDict(n) => DOMAIN n.m \cap keys = {}

\* C5: the result of strip_schema_keywords(S, K) has no key of K at any depth
\* and is otherwise S: every value of S not under a key of K is in the result
\* at the same path, and nothing else is; the Anthropic builder's result has
\* none of the unsupported keywords at any depth.
C5_StripRemovesOnlyKeys ==
    /\ op = "strip_schema_keywords" =>
          /\ NoKeyOf(result, kset)
          /\ Entries(result, <<>>) = {e \in Entries(input, <<>>) : Avoids(e[1], kset)}
    /\ op = "anthropic_response_schema" =>
          NoKeyOf(result,
                  {"minimum", "maximum", "exclusiveMinimum", "exclusiveMaximum",
                   "multipleOf", "minItems", "maxItems", "uniqueItems"})

\* C5's case: a keyword is stripped from a node nested in a list, and the
\* node's other keys are kept.
C5_Witness ==
    /\ op = "strip_schema_keywords"
    /\ \E x \in SubValues(input) :
          /\ IsList(x)
          /\ \E i \in DOMAIN x.s :
                /\ IsDict(x.s[i])
                /\ DOMAIN x.s[i].m \cap kset # {}
                /\ DOMAIN x.s[i].m \ kset # {}
                /\ D([k \in DOMAIN x.s[i].m \ kset |-> x.s[i].m[k]]) \in SubValues(result)

\* A JSON object or array starts at position i of t.
ParsesAt(t, i) == t[i] \in {"{", "["} /\ scan_once(t, i) # 0

\* t is exactly one serialized JSON object or array.
IsJsonDocument(t) == t # <<>> /\ ParsesAt(t, 1) /\ scan_once(t, 1) = Len(t) + 1

\* t contains no parseable JSON object or array.
NoJson(t) == \A i \in DOMAIN t : ~ParsesAt(t, i)

\* C6: _extract_candidate_json returns a text that is exactly a serialized
\* JSON object or array unchanged; of a text made of a prefix in which no
\* JSON value starts, one JSON object or array and a suffix without JSON it
\* returns that object or array; and it raises on every text that contains no
\* parseable JSON object or array.
C6_ExtractRoundTrip ==
    extracted.kind # "none" =>
        /\ IsJsonDocument(text) => extracted = JsonReturn(text)
        /\ \A i \in DOMAIN text : \A j \in i..Len(text) :
              (/\ IsJsonDocument(SubSeq(text, i, j))
               /\ \A h \in 1..(i - 1) : ~ParsesAt(text, h)
               /\ NoJson(SubSeq(text, j + 1, Len(text)))) =>
                  extracted = JsonReturn(SubSeq(text, i, j))
        /\ NoJson(text) => extracted.kind = "ValueError"

---------------------------------------------------------------------------
\* The expected keys of the three envelopes, at every level.
ExpectedKeys ==
    {"output", "content", "annotations", "citations", "candidates",
     "grounding_metadata", "grounding_chunks", "web"}

\* An envelope none of whose mappings, at any depth, has an expected key.
RECURSIVE MissingAllExpectedKeys(_)
MissingAllExpectedKeys(x) ==
    IF IsDict(x)
    THEN /\ DOMAIN x.m \cap ExpectedKeys = {}
         /\ \A k \in DOMAIN x.m : MissingAllExpectedKeys(x.m[k])
    ELSE IF IsList(x) THEN \A i \in DOMAIN x.s : MissingAllExpectedKeys(x.s[i])
    ELSE TRUE

\* C7: _extract_citations of every adapter returns on every response
\* envelope, malformed and partial ones included, and never raises; on an
\* envelope that has none of the expected keys it returns the empty list.
C7_ExtractionNeverRaises ==
    extraction.kind # "none" =>
        /\ extraction.kind = "return"
        /\ MissingAllExpectedKeys(envelope) => extraction.citations = <<>>

\* C7: an extraction has been called on an envelope whose expected key is
\* present with null, and has raised.
C7_Witness ==
    /\ provider = "gemini"
    /\ envelope = D("candidates" :> None)
    /\ extraction = Raises("TypeError")

---------------------------------------------------------------------------
\* The main provider calls among the calls made so far.
MainCalls == {i \in DOMAIN calls : calls[i].api = MainApi(adapter)}

\* The caller's adapter_options as a mapping (empty for None).
OptionsOf(run_args) ==
    IF IsDict(run_args.adapter_options) THEN run_args.adapter_options.m ELSE <<>>

\* C8: when a step of run (upload, request construction, provider call,
\* text or citation extraction) has raised an exception, run raises a
\* ProviderError whose message contains that exception's message and whose
\* cause is that exception; run never raises anything but ProviderError.
C8_FailuresBecomeProviderError ==
    /\ (pc = "done" /\ failure # NoException) =>
            /\ outcome.kind = "raise"
            /\ outcome.type = "ProviderError"
            /\ outcome.cause = failure
            /\ failure.message \in Range(outcome.message)
    /\ outcome.kind = "raise" => outcome.type = "ProviderError"

\* C8: an upload has raised the SDK's exception and run has ended.
C8_Witness ==
    /\ pc = "done"
    /\ failure = Exception("APIConnectionError", "Connection error.")
    /\ calls # <<>>
    /\ calls[Len(calls)].api = UploadApi(adapter)
    /\ outcome.kind = "raise"

\* The schema a main call of the OpenAI or Anthropic adapter carries.
SentSchema(call) ==
    IF call.api = "responses.create"
    THEN call.kwargs.m["text"].m["format"].m["schema"]
    ELSE call.kwargs.m["output_config"].m["format"].m["schema"]

SchemaKey(a) == IF a = "openai" THEN "text" ELSE "output_config"

\* The provider's variant of a model schema, as schema.py builds it.
SchemaVariant(a, model_schema) ==
    LET built_schema == IF a = "openai" THEN openai_response_schema(<<model_schema>>, 1)
                        ELSE anthropic_response_schema(<<model_schema>>, 1)
    IN  built_schema.st[built_schema.ref]

\* C9: when output_format is given (and adapter_options do not replace the
\* schema key), the request the OpenAI adapter sends carries
\* openai_response_schema(output_format) and the request the Anthropic
\* adapter sends carries anthropic_response_schema(output_format).
C9_SendsProviderSchemaVariant ==
    \A i \in MainCalls :
        (/\ adapter \in {"openai", "claude"}
         /\ args.output_format # None
         /\ SchemaKey(adapter) \notin DOMAIN OptionsOf(args)) =>
            SentSchema(calls[i]) = SchemaVariant(adapter, args.output_format)

\* C9: a request with an output_format has been sent by the OpenAI adapter.
C9_Witness ==
    /\ adapter = "openai"
    /\ args.output_format # None
    /\ MainCalls # {}
    /\ OptionsOf(args) = <<>>

\* The value a main call sends for a key: its keyword argument of that
\* name, else the entry of that name in its config.
SentValue(call, k) ==
    IF k \in DOMAIN call.kwargs.m THEN call.kwargs.m[k]
    ELSE IF "config" \in DOMAIN call.kwargs.m /\ k \in DOMAIN call.kwargs.m["config"].m
    THEN call.kwargs.m["config"].m[k]
    ELSE None

\* C10 as stated: in every adapter, for every key of adapter_options the
\* value sent to the provider is the caller's value, whatever the key
\* (model, input/messages/contents, tools, the schema key).
C10_CallerValueForEveryKey ==
    \A i \in MainCalls : \A k \in DOMAIN OptionsOf(args) :
        SentValue(calls[i], k) = OptionsOf(args)[k]

\* C10: the OpenAI and Anthropic adapters merge adapter_options into the
\* request payload last, so every key of adapter_options is sent with the
\* caller's value; the Gemini adapter merges adapter_options last into the
\* generation config only, so every key of adapter_options is in the config
\* with the caller's value, while the model and the contents of the request
\* are the model argument and the contents built from prompt and files.
C10_OptionsMergedLast ==
    \A i \in MainCalls :
        LET kwargs == calls[i].kwargs.m
            options == OptionsOf(args)
        IN  IF adapter = "gemini"
            THEN /\ \A k \in DOMAIN options :
                        /\ k \in DOMAIN kwargs["config"].m
                        /\ kwargs["config"].m[k] = options[k]
                 /\ kwargs["model"] = Str(args.model)
                 /\ kwargs["contents"] = _build_contents(args.prompt, uploaded)
            ELSE \A k \in DOMAIN options : k \in DOMAIN kwargs /\ kwargs[k] = options[k]

\* C10: the Gemini adapter has sent a request for a caller whose
\* adapter_options name the key model, with search and a schema attached.
C10_Witness ==
    /\ adapter = "gemini"
    /\ "model" \in DOMAIN OptionsOf(args)
    /\ args.require_search
    /\ args.output_format # None
    /\ MainCalls # {}
    /\ outcome.kind = "return"

---------------------------------------------------------------------------
\* The list under a key of a mapping; no entries when the key is missing or
\* its value is no list.
ListAt(x, key) ==
    IF IsDict(x) /\ key \in DOMAIN x.m /\ IsList(x.m[key]) THEN x.m[key].s ELSE <<>>

TypeIs(x, name) == IsDict(x) /\ Get(x.m, "type") = Str(name)

\* The places of the eligible fragments of an envelope, as index paths.
\* OpenAI: <<output, part, annotation>>; Anthropic: <<block, entry>>;
\* Gemini: <<candidate, chunk>>.
EligiblePaths(prov, env) ==
    IF prov = "openai"
    THEN LET outputs == ListAt(env, "output")
         IN  {p \in UNION {UNION {{<<i, j, k>> :
                                     k \in DOMAIN ListAt(ListAt(outputs[i], "content")[j],
                                                         "annotations")} :
                                  j \in DOMAIN ListAt(outputs[i], "content")} :
                           i \in DOMAIN outputs} :
                 TypeIs(outputs[p[1]], "message")}
    ELSE IF prov = "claude"
    THEN LET blocks == ListAt(env, "content")
         IN  UNION {IF TypeIs(blocks[i], "text")
                    THEN {<<i, k>> : k \in DOMAIN ListAt(blocks[i], "citations")}
                    ELSE IF TypeIs(blocks[i], "web_search_tool_result")
                    THEN {<<i, k>> : k \in DOMAIN ListAt(blocks[i], "content")}
                    ELSE {} : i \in DOMAIN blocks}
    ELSE LET candidates == ListAt(env, "candidates")
             ChunksOf(i) ==
                 IF IsDict(candidates[i])
                 THEN ListAt(Get(candidates[i].m, "grounding_metadata"), "grounding_chunks")
                 ELSE <<>>
         IN  UNION {{<<i, k>> : k \in {k \in DOMAIN ChunksOf(i) :
                                          IsDict(ChunksOf(i)[k])
                                          /\ IsDict(Get(ChunksOf(i)[k].m, "web"))
                                          /\ DOMAIN Get(ChunksOf(i)[k].m, "web").m # {}}} :
                    i \in DOMAIN candidates}

\* The fragment at a path.
FragmentAt(prov, env, p) ==
    IF prov = "openai"
    THEN ListAt(ListAt(ListAt(env, "output")[p[1]], "content")[p[2]], "annotations")[p[3]]
    ELSE IF prov = "claude"
    THEN LET block == ListAt(env, "content")[p[1]]
         IN  IF TypeIs(block, "text") THEN ListAt(block, "citations")[p[2]]
             ELSE ListAt(block, "content")[p[2]]
    ELSE ListAt(Get(ListAt(env, "candidates")[p[1]].m, "grounding_metadata"),
                "grounding_chunks")[p[2]]

\* p comes before q in the envelope (lexicographic order of the paths).
Before(p, q) ==
    \E n \in DOMAIN p : p[n] < q[n] /\ \A h \in 1..(n - 1) : p[h] = q[h]

\* The position of the fragment at p among the eligible fragments.
Rank(paths, p) == Cardinality({q \in paths : Before(q, p)}) + 1

\* C11: the list _extract_citations returns has one Citation per eligible
\* fragment of the envelope, in the order of the fragments in the envelope,
\* and nothing else: as many citations as eligible fragments (equal
\* fragments are not merged), the n-th citation made from the n-th fragment.
C11_CitationsAreTheEligibleFragments ==
    extraction.kind = "return" =>
        LET paths == EligiblePaths(provider, envelope)
        IN  /\ Len(extraction.citations) = Cardinality(paths)
            /\ \A p \in paths :
                  /\ extraction.citations[Rank(paths, p)].raw = FragmentAt(provider, envelope, p)
                  /\ extraction.citations[Rank(paths, p)].provider = provider

\* C11: an extraction has returned two citations made from two equal
\* fragments.
C11_Witness ==
    /\ extraction.kind = "return"
    /\ provider = "gemini"
    /\ Len(extraction.citations) = 2
    /\ extraction.citations[1] = extraction.citations[2]

---------------------------------------------------------------------------
\* The invocations of _extract_citations among the calls made so far.
ExtractionCalls == {i \in DOMAIN calls : calls[i].api = "_extract_citations"}

\* C12: in a run with return_citations = false _extract_citations is never
\* invoked and the citations of the returned response are empty, whatever
\* the envelope holds; in a run with return_citations = true that returns,
\* it has been invoked, once, on the response envelope.
C12_ExtractionOnlyWhenAsked ==
    /\ (adapter # "none" /\ ~args.return_citations) =>
            /\ ExtractionCalls = {}
            /\ outcome.kind = "return" => outcome.citations = <<>>
    /\ (outcome.kind = "return" /\ args.return_citations) =>
            /\ Cardinality(ExtractionCalls) = 1
            /\ \A i \in ExtractionCalls : calls[i].kwargs = ResponseDict(response)

\* C12: a run without return_citations has returned a response whose
\* envelope holds citations.
C12_Witness ==
    /\ outcome.kind = "return"
    /\ ~args.return_citations
    /\ _extract_citations(adapter, outcome.raw).kind = "return"
    /\ _extract_citations(adapter, outcome.raw).citations # <<>>

---------------------------------------------------------------------------
\* The uploads among the calls made so far.
UploadCalls == {i \in DOMAIN calls : calls[i].api = UploadApi(adapter)}

\* C13: the uploads are issued in the order of files, one after the other
\* (the k-th upload is of the k-th file, and is issued when the k-1 before
\* it have completed); the main request is issued after every upload has
\* completed, at most once in a run and exactly once in a run that returns,
\* and not at all when an upload has failed.
C13_UploadsThenOneRequest ==
    adapter # "none" =>
        /\ \A i \in UploadCalls :
              LET k == Cardinality({j \in UploadCalls : j <= i})
              IN  /\ k <= Len(args.files)
                  /\ calls[i].kwargs.m["file"] = Str(args.files[k])
                  /\ Len(uploaded) >= k - 1
        /\ Cardinality(MainCalls) <= 1
        /\ \A i \in MainCalls :
              /\ \A j \in UploadCalls : j < i
              /\ Len(uploaded) = Cardinality(UploadCalls)
              /\ adapter # "claude" => Cardinality(UploadCalls) = Len(args.files)
        /\ outcome.kind = "return" => Cardinality(MainCalls) = 1
        /\ Len(uploaded) < Cardinality(UploadCalls) =>
              /\ failure # NoException
              /\ MainCalls = {}

\* C13: a run with two files has uploaded both and has returned.
C13_Witness ==
    /\ adapter = "gemini"
    /\ Len(args.files) = 2
    /\ args.files[1] # args.files[2]
    /\ Cardinality(UploadCalls) = 2
    /\ outcome.kind = "return"

---------------------------------------------------------------------------
\* The threads whose constructor asks for the network instrumentation.
Installers == {t \in Threads : log_settings[t].enabled /\ log_settings[t].network_logging}

---------------------------------------------------------------------------
\* The error kinds of exceptions.py: SettingsError is raised for invalid or
\* missing configuration, ProviderError when a provider adapter fails.
ConfigurationErrorKind == "SettingsError"

ExecutionErrorKinds == {ProviderError(adapter, exc).type : exc \in Exceptions}

\* C15: an adapter whose client library cannot be imported fails in its
\* constructor, before any provider call, and the error it raises is of the
\* configuration-error kind, which is not the kind run raises for a failed
\* provider execution.
C15_MissingLibraryIsConfigurationError ==
    pc = "unconstructed" =>
        /\ outcome.kind = "raise"
        /\ calls = <<>>
        /\ outcome.type = ConfigurationErrorKind
        /\ outcome.type \notin ExecutionErrorKinds

\* C15: the constructor of the OpenAI adapter has raised because the openai
\* package could not be imported.
C15_Witness ==
    /\ pc = "unconstructed"
    /\ adapter = "openai"
    /\ outcome.kind = "raise"
    /\ outcome.cause.type = "ImportError"

\* C15, the part the constructors satisfy: the failure comes before any
\* provider call.
C15_FailsBeforeAnyCall ==
    pc = "unconstructed" => outcome.kind = "raise" /\ calls = <<>> /\ uploaded = <<>>

---------------------------------------------------------------------------
\* The strings among the defaults of the settings, each canonicalised, in the
\* order of the list.
DefaultCandidates ==
    LET items == IF settings.defaults.py = "list"
                 THEN SelectSeq(settings.defaults.items, LAMBDA item : item.py = "str")
                 ELSE <<>>
    IN  [i \in DOMAIN items |->
            Or(canonical_provider_name(items[i].chars), lower(strip(items[i].chars)))]

WithCredentials ==
    {i \in DOMAIN DefaultCandidates : get_provider_api_key(settings, DefaultCandidates[i]) # <<>>}

\* The kind of error an unknown model string is answered with.
ResolutionErrorKind == resolve_requested(settings, Chr("mistral-7b")).type

\* C16: when no model is requested and no default provider of the settings
\* has credentials, the resolution raises an error of the
\* configuration-error kind, which is not the kind raised for an unknown
\* model string.
C16_NoCredentialsIsConfigurationError ==
    (resolved # NotCalled /\ requested_model = NoModel /\ WithCredentials = {}) =>
        /\ resolved.kind = "raise"
        /\ resolved.type = ConfigurationErrorKind
        /\ resolved.type # ResolutionErrorKind

\* C16: no model was requested, the settings name default providers, none
\* of them has credentials, and the resolution has raised.
C16_Witness ==
    /\ resolved # NotCalled
    /\ requested_model = NoModel
    /\ Len(DefaultCandidates) = 2
    /\ WithCredentials = {}
    /\ resolved.kind = "raise"
    /\ resolved.message = "No credentials found for any configured default provider"

\* The requested string trimmed, and trimmed and in lower case.
Trimmed == strip(requested_model.chars)

TrimmedLower == lower(Trimmed)

\* The entries of a table whose name is, or is contained in, the string.
EntriesEqual(table) == {i \in DOMAIN table : Chr(table[i][1]) = TrimmedLower}

EntriesWithin(table) == {i \in DOMAIN table : Contains(TrimmedLower, Chr(table[i][1]))}

First(entries) == CHOOSE i \in entries : \A j \in entries : i <= j

\* C17: a requested string is resolved by a fixed precedence: a provider
\* alias gives the provider and its configured default model; otherwise a
\* key of the map of known models gives the mapped provider and the string
\* trimmed in its original case; otherwise a hint gives the provider of the
\* first matching hint of the table and the trimmed string; otherwise
\* ModelResolutionError is raised.
C17_ResolutionPrecedence ==
    (resolved # NotCalled /\ requested_model # NoModel) =>
        LET aliases == EntriesEqual(PROVIDER_ALIASES)
            known == EntriesEqual(MODEL_PROVIDER_MAP)
            hints == EntriesWithin(PROVIDER_HINTS)
        IN  IF aliases # {}
            THEN LET p == Chr(PROVIDER_ALIASES[First(aliases)][2])
                 IN  ProviderConfig(settings, p).default_model # <<>> =>
                        resolved = ResolveReturn(p, ProviderConfig(settings, p).default_model)
            ELSE IF known # {}
            THEN resolved = ResolveReturn(Chr(MODEL_PROVIDER_MAP[First(known)][2]), Trimmed)
            ELSE IF hints # {}
            THEN resolved = ResolveReturn(Chr(PROVIDER_HINTS[First(hints)][2]), Trimmed)
            ELSE resolved.kind = "raise" /\ resolved.type = "ModelResolutionError"

\* C17: a padded upper-case string that is a known model of one provider and
\* contains the hint of another has been resolved by the map, and is
\* returned trimmed in its case.
C17_Witness ==
    /\ requested_model = PyStr(Padded(upper(Chr("openai/o4-mini"))))
    /\ resolved = ResolveReturn(Chr("perplexity"), upper(Chr("openai/o4-mini")))
    /\ Chr(PROVIDER_HINTS[First(EntriesWithin(PROVIDER_HINTS))][2]) = Chr("openai")

\* C18: with no requested model the resolution returns the first of the
\* canonicalised defaults that has credentials, with that provider's
\* configured default model.
C18_FirstDefaultWithCredentials ==
    (resolved # NotCalled /\ requested_model = NoModel /\ WithCredentials # {}) =>
        LET p == DefaultCandidates[First(WithCredentials)]
        IN  ProviderConfig(settings, p).default_model # <<>> =>
                resolved = ResolveReturn(p, ProviderConfig(settings, p).default_model)

\* C18: the first default has no credentials and was skipped; the second,
\* written padded and in upper case, was returned under its canonical name.
C18_Witness ==
    /\ requested_model = NoModel
    /\ resolved.kind = "return"
    /\ Len(DefaultCandidates) = 2
    /\ First(WithCredentials) = 2
    /\ settings.defaults.items[2] = PyStr(Padded(upper(Chr("openai"))))
    /\ resolved = ResolveReturn(Chr("openai"), Chr("gpt-5.2"))

---------------------------------------------------------------------------
\* _make_nullable applied to a schema object of its own.
MakeNullableOf(x) ==
    LET call == _make_nullable(<<x>>, 1)
    IN  call.st[call.ref]

\* The null-type alternatives of a node's anyOf.
NullAlternatives(n) ==
    IF IsDict(n) /\ "anyOf" \in DOMAIN n.m /\ IsList(n.m["anyOf"])
    THEN {i \in DOMAIN n.m["anyOf"].s : n.m["anyOf"].s[i] = NullType}
    ELSE {}

\* C19: _make_nullable applied to what _make_nullable returned gives the
\* same schema again, with no further null-type alternative.
C19_MakeNullableIdempotent ==
    op = "_make_nullable" =>
        /\ MakeNullableOf(result) = result
        /\ Cardinality(NullAlternatives(MakeNullableOf(result))) = Cardinality(NullAlternatives(result))

\* C19: _make_nullable has turned a oneOf without a null alternative into
\* an anyOf with one.
C19_Witness ==
    /\ op = "_make_nullable"
    /\ "oneOf" \in DOMAIN input.m
    /\ "oneOf" \notin DOMAIN result.m
    /\ Cardinality(NullAlternatives(result)) = 1

\* The JSON documents the schemas are asked about.
Documents ==
    {None, Str("a"), Str("c"), Num("1"), Num("-1"), True,
     EmptyD, D("a" :> Str("a")), D("a" :> None), D(("a" :> Str("a")) @@ ("b" :> Num("1"))),
     L(<<>>), L(<<Str("a")>>), L(<<None>>)}

\* The number a JSON number of the model stands for.
NumberOf(x) == IF x.v = "-1" THEN 0 - 1 ELSE IF x.v = "0" THEN 0 ELSE 1

\* JSON Schema: the type keyword.
TypeMatches(name, v) ==
    \/ name = Str("null") /\ v = None
    \/ name = Str("string") /\ v.t = "str"
    \/ name = Str("integer") /\ v.t = "num"
    \/ name = Str("number") /\ v.t = "num"
    \/ name = Str("boolean") /\ v.t = "bool"
    \/ name = Str("object") /\ v.t = "dict"
    \/ name = Str("array") /\ v.t = "list"

\* JSON Schema validation: a schema accepts a document when every keyword of
\* the schema does; title and default are annotations.
RECURSIVE Accepts(_, _)
Accepts(n, v) ==
    IF n = False THEN FALSE
    ELSE IF ~IsDict(n) THEN TRUE
    ELSE LET m == n.m
             has(k) == k \in DOMAIN m
         IN
        /\ (has("type") /\ IsStr(m["type"])) => TypeMatches(m["type"], v)
        /\ (has("type") /\ IsList(m["type"])) =>
                \E i \in DOMAIN m["type"].s : TypeMatches(m["type"].s[i], v)
        /\ (has("enum") /\ IsList(m["enum"])) => v \in Range(m["enum"].s)
        /\ has("const") => v = m["const"]
        /\ (has("anyOf") /\ IsList(m["anyOf"])) =>
                \E i \in DOMAIN m["anyOf"].s : Accepts(m["anyOf"].s[i], v)
        /\ (has("oneOf") /\ IsList(m["oneOf"])) =>
                Cardinality({i \in DOMAIN m["oneOf"].s : Accepts(m["oneOf"].s[i], v)}) = 1
        /\ (has("minimum") /\ v.t = "num") => NumberOf(v) >= NumberOf(m["minimum"])
        /\ (has("minItems") /\ v.t = "list") => Len(v.s) >= NumberOf(m["minItems"])
        /\ (has("items") /\ v.t = "list") =>
                \A i \in DOMAIN v.s : Accepts(m["items"], v.s[i])
        /\ (has("required") /\ IsList(m["required"]) /\ v.t = "dict") =>
                \A i \in DOMAIN m["required"].s : m["required"].s[i].v \in DOMAIN v.m
        /\ (has("properties") /\ IsDict(m["properties"]) /\ v.t = "dict") =>
                \A k \in DOMAIN v.m \cap DOMAIN m["properties"].m :
                    Accepts(m["properties"].m[k], v.m[k])
        /\ (has("additionalProperties") /\ v.t = "dict") =>
                \A k \in DOMAIN v.m :
                    (~(has("properties") /\ IsDict(m["properties"]))
                        \/ k \notin DOMAIN m["properties"].m) =>
                    Accepts(m["additionalProperties"], v.m[k])

\* C20: the schema _make_nullable returns accepts a document exactly when
\* the document is null or the schema it was given accepts it.
C20_AcceptsNullAndTheSame ==
    op = "_make_nullable" =>
        \A v \in Documents : Accepts(result, v) <=> (v = None \/ Accepts(input, v))

\* C20: _make_nullable was given a string type with an enum beside it.
C20_Witness ==
    /\ op = "_make_nullable"
    /\ input = D(("type" :> Str("string")) @@ ("enum" :> L(<<Str("a"), Str("b")>>)))
    /\ Accepts(input, Str("a"))
    /\ ~Accepts(input, Str("c"))

\* C20, for schemas without a keyword that constrains values of every type
\* beside the type: the returned schema accepts null and otherwise the same
\* documents.
C20_HoldsWithoutEnum ==
    (op = "_make_nullable" /\ ~(IsDict(input) /\ "enum" \in DOMAIN input.m)) =>
        \A v \in Documents : Accepts(result, v) <=> (v = None \/ Accepts(input, v))

---------------------------------------------------------------------------
\* The scalars inside x with their paths, and the scalars alone.
RECURSIVE ScalarsAt(_, _)
ScalarsAt(x, path) ==
    IF IsDict(x)
    THEN UNION {ScalarsAt(x.m[k], Append(path, Key(k))) : k \in DOMAIN x.m}
    ELSE IF IsList(x)
    THEN UNION {ScalarsAt(x.s[i], Append(path, Idx(i))) : i \in DOMAIN x.s}
    ELSE {<<path, x>>}

ScalarEntries(x) == ScalarsAt(x, <<>>)

ScalarValues(x) == {e[2] : e \in ScalarEntries(x)}

\* The last step of a path is the key k.
EndsWithKey(path, k) ==
    path # <<>> /\ "key" \in DOMAIN path[Len(path)] /\ path[Len(path)].key = k

\* The keys of the mappings inside x, as the strings a required list names.
KeyNames(x) == UNION {{Str(k) : k \in DOMAIN n.m} : n \in {v \in SubValues(x) : IsDict(v)}}

\* C21: enforce_closed_objects, strip_schema_keywords and
\* enforce_openai_required_all_properties return on every schema tree, never
\* raise, and return the scalar leaves as they were: at their paths (but
\* for the additionalProperties the closing pass writes), and for the
\* required pass, which moves a type into a union, by their values.
C21_TransformsAreTotal ==
    /\ op \in {"enforce_closed_objects", "strip_schema_keywords",
               "enforce_openai_required_all_properties"} => ~IsRaise(result)
    /\ op = "enforce_closed_objects" =>
          {e \in ScalarEntries(result) : ~EndsWithKey(e[1], "additionalProperties")}
              \subseteq ScalarEntries(input)
    /\ op = "strip_schema_keywords" => ScalarEntries(result) \subseteq ScalarEntries(input)
    /\ (op = "enforce_openai_required_all_properties" /\ ~IsRaise(result)) =>
          ScalarValues(result) \subseteq ScalarValues(input) \cup {Str("null")} \cup KeyNames(result)

\* C21: the required pass was called on a schema that holds, below its root,
\* an object whose required is the scalar true.
C21_Witness ==
    /\ op = "enforce_openai_required_all_properties"
    /\ \E n \in SubValues(input) :
          /\ n # input
          /\ HasPropertiesMap(n)
          /\ "required" \in DOMAIN n.m /\ n.m["required"] = True

\* C21, the part the code satisfies: the closing and the stripping pass always
\* return, and the required pass returns whenever every required value at
\* an object with a properties map is a list of names or absent.
C21_TotalOnListsOfNames ==
    /\ op \in {"enforce_closed_objects", "strip_schema_keywords"} => ~IsRaise(result)
    /\ (op = "enforce_openai_required_all_properties"
            /\ \A n \in SubValues(input) :
                  (IsDict(n) /\ "required" \in DOMAIN n.m) => IsList(n.m["required"])) =>
          ~IsRaise(result)

---------------------------------------------------------------------------
(* C22: with logging enabled, every emitted event is written to the log as    *)
(* exactly one line that parses as a JSON object, and the events appear in    *)
(* call order: log_start followed by log_end yields exactly two lines, the    *)
(* first with event run_prompt.start and the second with event                *)
(* run_prompt.end carrying the given citations_count.                         *)

\* The value of a key of a dict.
Item(d, key) == d.items[CHOOSE i \in DOMAIN d.items : d.items[i][1] = key][2]

C22_OneJsonLinePerEvent ==
    enabled =>
        /\ Len(logfile) = Len(emitted)
        /\ \A i \in DOMAIN emitted :
              /\ loads(logfile[i]).ok
              /\ loads(logfile[i]).val.t = "dict"
              /\ loads(logfile[i]).val = emitted[i]

(* C22, witness: with logging enabled, log_start and then log_end with         *)
(* citations_count 1 have been called, as in the repository's test.            *)
C22_Witness ==
    /\ enabled
    /\ Len(emitted) = 2
    /\ Item(emitted[1], "event") = Str("run_prompt.start")
    /\ Item(emitted[2], "event") = Str("run_prompt.end")
    /\ Item(emitted[2], "citations_count") = Num(1)

\* The documents of a stream of tokens, one after the other.
RECURSIVE Stream(_, _)
Stream(t, i) ==
    IF i > Len(t) THEN <<>>
    ELSE LET r == parse_value(t, i)
         IN  IF r.ok THEN <<r.val>> \o Stream(t, r.next) ELSE <<JSONDecodeError>>

RECURSIVE AllTokens(_)
AllTokens(lines) == IF lines = <<>> THEN <<>> ELSE Head(lines) \o AllTokens(Tail(lines))

(* C22, the part that holds: with logging enabled the log file as a whole is   *)
(* the sequence of the emitted events as JSON objects, in call order; with     *)
(* logging off nothing is written.                                              *)
C22_DocumentsInCallOrder ==
    /\ enabled => Stream(Significant(AllTokens(logfile)), 1) = emitted
    /\ ~enabled => logfile = <<>>

---------------------------------------------------------------------------
(* C23: collect_file_paths(file, files) returns every distinct resolved path  *)
(* exactly once, in first-occurrence order with the file argument before the  *)
(* entries of files; the same path given as a Path and as a string, or given  *)
(* several times, appears once.                                               *)

\* The paths the caller named, file first, as the file system resolves them.
GivenPaths ==
    LET given == (IF file = NoValue THEN <<>> ELSE <<file>>)
                 \o (IF files = NoValue THEN <<>>
                     ELSE IF files.t = "list" THEN files.s ELSE <<files>>)
    IN  [i \in DOMAIN given |-> resolve(expanduser(given[i].path))]

\* The place of the first occurrence of a path among the given ones.
FirstOccurrence(p) == CHOOSE i \in DOMAIN GivenPaths :
    GivenPaths[i] = p /\ \A j \in 1..(i - 1) : GivenPaths[j] # p

C23_DistinctPathsInFirstOccurrenceOrder ==
    file_paths # NoValue =>
        LET out == file_paths.s
        IN  /\ Range(out) = Range(GivenPaths)
            /\ \A i, j \in DOMAIN out : i < j =>
                  /\ out[i] # out[j]
                  /\ FirstOccurrence(out[i]) < FirstOccurrence(out[j])

(* C23, witness: the call has returned fewer paths than it was given, for a    *)
(* path that was given once as a str and once as a Path and a second path.     *)
C23_Witness ==
    /\ file_paths # NoValue
    /\ file # NoValue /\ files # NoValue /\ files.t = "list" /\ Len(files.s) = 2
    /\ file.t = "Path" /\ files.s[1].t = "str" /\ files.s[1].path = file.path
    /\ Len(file_paths.s) = 2

---------------------------------------------------------------------------
(* C24: make_nullable follows the closed priority table, the first matching   *)
(* case winning: (a) type "null" or a type list containing "null":            *)
(* unchanged; (b) an anyOf list: a null-type alternative is appended unless   *)
(* one exists; (c) a oneOf list: the result has no oneOf key and has anyOf =  *)
(* all oneOf members followed by a null-type alternative; (d) a single string *)
(* type: type removed, anyOf = [{type: original}, {type: null}], the sibling  *)
(* keys preserved; (e) a list type: one anyOf branch per non-null member      *)
(* followed by a null branch, siblings preserved; (f) otherwise anyOf =       *)
(* [node, {type: null}].  No input gives a result outside these shapes.       *)

HasListAt(n, key) == key \in DOMAIN n.m /\ n.m[key].t = "list"
HasStrAt(n, key) == key \in DOMAIN n.m /\ n.m[key].t = "str"

IsNullAlternative(x) == x.t = "dict" /\ HasStrAt(x, "type") /\ x.m["type"].v = "null"

\* The case of the table a node falls in.
TableCase(n) ==
    IF \/ HasStrAt(n, "type") /\ n.m["type"].v = "null"
       \/ HasListAt(n, "type") /\ \E i \in DOMAIN n.m["type"].s : n.m["type"].s[i] = Str("null")
    THEN "a"
    ELSE IF HasListAt(n, "anyOf") THEN "b"
    ELSE IF HasListAt(n, "oneOf") THEN "c"
    ELSE IF HasStrAt(n, "type") THEN "d"
    ELSE IF HasListAt(n, "type") THEN "e"
    ELSE "f"

\* n without a key, and n with a key set.
Without(n, key) == [t |-> "dict", m |-> [k \in DOMAIN n.m \ {key} |-> n.m[k]]]
With(n, key, x) ==
    [t |-> "dict", m |-> [k \in DOMAIN n.m \cup {key} |-> IF k = key THEN x ELSE n.m[k]]]

NullBranch == [t |-> "dict", m |-> [k \in {"type"} |-> Str("null")]]
Branch(type) == [t |-> "dict", m |-> [k \in {"type"} |-> type]]

\* One branch per member of a type list that is not "null".
RECURSIVE NonNullBranches(_)
NonNullBranches(types) ==
    IF types = <<>> THEN <<>>
    ELSE (IF Head(types) = Str("null") THEN <<>> ELSE <<Branch(Head(types))>>)
         \o NonNullBranches(Tail(types))

\* What the table prescribes for a node.
TableResult(n) ==
    LET c == TableCase(n)
    IN  IF c = "a" THEN n
        ELSE IF c = "b" THEN
            IF \E i \in DOMAIN n.m["anyOf"].s : IsNullAlternative(n.m["anyOf"].s[i]) THEN n
            ELSE With(n, "anyOf", L(n.m["anyOf"].s \o <<NullBranch>>))
        ELSE IF c = "c" THEN
            With(Without(n, "oneOf"), "anyOf", L(n.m["oneOf"].s \o <<NullBranch>>))
        ELSE IF c = "d" THEN
            With(Without(n, "type"), "anyOf", L(<<Branch(n.m["type"]), NullBranch>>))
        ELSE IF c = "e" THEN
            With(Without(n, "type"), "anyOf",
                 L(NonNullBranches(n.m["type"].s) \o <<NullBranch>>))
        ELSE [t |-> "dict", m |-> [k \in {"anyOf"} |-> L(<<n, NullBranch>>)]]

C24_FollowsTheTable ==
    op = "_make_nullable" => result = TableResult(input)

\* A oneOf list that holds a null-type alternative already.
NullableOneOf(n) ==
    /\ TableCase(n) = "c"
    /\ \E i \in DOMAIN n.m["oneOf"].s : IsNullAlternative(n.m["oneOf"].s[i])

(* C24, witness: make_nullable has returned for a node whose oneOf list        *)
(* holds a null-type alternative already.                                      *)
C24_Witness ==
    /\ op = "_make_nullable"
    /\ NullableOneOf(input)

(* C24, the part that holds: the table is followed for every node but one      *)
(* whose oneOf list holds a null-type alternative already, which is returned   *)
(* unchanged.                                                                   *)
C24_TableButNullableOneOf ==
    op = "_make_nullable" =>
        result = IF NullableOneOf(input) THEN input ELSE TableResult(input)

(* C24: every case of the table has happened.                                  *)
C24_CaseA == op = "_make_nullable" /\ TableCase(input) = "a"
C24_CaseB == op = "_make_nullable" /\ TableCase(input) = "b"
C24_CaseC == op = "_make_nullable" /\ TableCase(input) = "c" /\ ~NullableOneOf(input)
C24_CaseD == op = "_make_nullable" /\ TableCase(input) = "d"
C24_CaseE == op = "_make_nullable" /\ TableCase(input) = "e"
C24_CaseF == op = "_make_nullable" /\ TableCase(input) = "f"

---------------------------------------------------------------------------
(* C25: on the slow path of _extract_candidate_json (the trimmed text does    *)
(* not both start and end with a matching bracket pair) the start positions   *)
(* are tried from left to right at each "{" or "[", and the result is the     *)
(* substring from the first position at which a complete JSON value parses    *)
(* through its closing bracket, the trailing text dropped; an earlier bracket *)
(* that starts no parseable value is skipped, never returned; an empty or     *)
(* whitespace-only text raises before any scan.                               *)

Blank(t) == \A i \in DOMAIN t : t[i] = " "

\* The text without its leading and trailing spaces.
TrimmedText(t) ==
    IF Blank(t) THEN <<>>
    ELSE LET ink == {i \in DOMAIN t : t[i] # " "}
             a == CHOOSE i \in ink : \A h \in ink : i <= h
             b == CHOOSE i \in ink : \A h \in ink : h <= i
         IN  SubSeq(t, a, b)

BracketWrapped(t) ==
    /\ t # <<>>
    /\ <<t[1], t[Len(t)]>> \in {<<"{", "}">>, <<"[", "]">>}

SlowPath(t) == ~Blank(t) /\ ~BracketWrapped(TrimmedText(t))

\* The positions of t at which a JSON object or array starts.
Starts(t) == {i \in DOMAIN t : ParsesAt(t, i)}

C25_SlowPathLeftmostValue ==
    extracted.kind # "none" =>
        /\ Blank(text) => extracted = JsonRaise("No content to parse.")
        /\ SlowPath(text) =>
              LET t == TrimmedText(text)
              IN  /\ \A i \in Starts(t) : (\A h \in Starts(t) : i <= h) =>
                        extracted = JsonReturn(SubSeq(t, i, scan_once(t, i) - 1))
                  /\ Starts(t) = {} =>
                        extracted = JsonRaise("Could not find JSON object/array in model output.")

(* C25, witness: on the slow path a value was returned that starts after a     *)
(* bracket at which nothing parses, and the text after it was dropped.         *)
C25_Witness ==
    /\ extracted.kind = "return"
    /\ SlowPath(text)
    /\ LET t == TrimmedText(text)
       IN  \E i \in Starts(t) :
              /\ \E h \in 1..(i - 1) : t[h] \in {"{", "["}
              /\ extracted.value = SubSeq(t, i, scan_once(t, i) - 1)
              /\ scan_once(t, i) <= Len(t)

(* C25, witness: a whitespace-only text has raised.                            *)
C25_BlankRaises == extracted.kind = "ValueError" /\ Blank(text) /\ text # <<>>

---------------------------------------------------------------------------
(* C26: whenever _extract_candidate_json returns, the returned string parses  *)
(* as one complete JSON object or array; also on the fast path, where the     *)
(* trimmed text starts with "{" and ends with "}" (or "[" and "]") but is not *)
(* itself a single JSON value, as two objects separated by prose.             *)

C26_ReturnedTextIsJson ==
    extracted.kind = "return" => IsJsonDocument(extracted.value)

(* C26, witness: the call has returned for two objects separated by prose.     *)
C26_Witness ==
    /\ extracted.kind = "return"
    /\ TrimmedText(text) = <<"{", "}", "x", "{", "}">>

(* C26, the part that holds: what is returned on the slow path is one          *)
(* complete JSON object or array.                                              *)
C26_SlowPathReturnsJson ==
    (extracted.kind = "return" /\ SlowPath(text)) => IsJsonDocument(extracted.value)

---------------------------------------------------------------------------
(* C27: in the schema returned by openai_response_schema every object-like    *)
(* node, at every depth, has additionalProperties = false, including the      *)
(* {type: "object"} alternative that the nullability rewrite creates for an   *)
(* optional object-typed property after the closing pass has run.             *)

Closed(n) ==
    /\ "additionalProperties" \in DOMAIN n.m
    /\ n.m["additionalProperties"] = Bool("False")

C27_OpenAIClosedAtEveryDepth ==
    (op = "openai_response_schema" /\ ~IsRaise(result)) =>
        \A n \in SubValues(result) : ObjectLikeNode(n) => Closed(n)

\* The alternative the rewrite of a string type creates: the type alone, or
\* the type with the empty required list the walk adds to it.
TypeOnlyAlternative(n) ==
    /\ DOMAIN n.m \subseteq {"type", "required"}
    /\ "type" \in DOMAIN n.m /\ n.m["type"] = Str("object")
    /\ "required" \in DOMAIN n.m => n.m["required"] = L(<<>>)

(* C27, witness: openai_response_schema has returned a schema in which an      *)
(* optional object-typed property was made nullable.                           *)
C27_Witness ==
    /\ op = "openai_response_schema"
    /\ ~IsRaise(result)
    /\ \E n \in SubValues(input) :
          /\ HasPropertiesMap(n)
          /\ \E k \in DOMAIN n.m["properties"].m :
                /\ Str(k) \notin RequiredNames(n)
                /\ IsDict(n.m["properties"].m[k])
                /\ Get(n.m["properties"].m[k].m, "type") = Str("object")

(* C27, the part that holds: the object-like nodes of the result that are not  *)
(* closed are the {type: "object"} alternatives of an anyOf.                   *)
C27_OpenOnlyTheNewAlternatives ==
    (op = "openai_response_schema" /\ ~IsRaise(result)) =>
        \A n \in SubValues(result) :
            (ObjectLikeNode(n) /\ ~Closed(n)) =>
                /\ TypeOnlyAlternative(n)
                /\ \E u \in SubValues(result) :
                      /\ IsDict(u) /\ "anyOf" \in DOMAIN u.m /\ IsList(u.m["anyOf"])
                      /\ \E i \in DOMAIN u.m["anyOf"].s : u.m["anyOf"].s[i] = n

---------------------------------------------------------------------------
(* C28: the provider builders never add or remove a property: for every       *)
(* object node the keys of its properties map in the output of the OpenAI,    *)
(* Anthropic and Perplexity builders are the keys of the corresponding        *)
(* properties map of the input, also when a property is named like a schema   *)
(* keyword (title, default, minimum, required, properties, ...); hence every  *)
(* name in an output node's required list is a key of its properties.         *)

Builders == {"openai_response_schema", "anthropic_response_schema", "perplexity_response_schema"}

\* The properties of the input's node and of the output's node in its place
\* are the same, and the output's required list names properties only.
SameProperties(a, b) ==
    HasPropertiesMap(a) =>
        /\ HasPropertiesMap(b)
        /\ DOMAIN b.m["properties"].m = DOMAIN a.m["properties"].m
        /\ RequiredNames(b) \subseteq PropertyNames(b)

C28_BuildersKeepProperties ==
    (op \in Builders /\ ~IsRaise(result)) =>
        \A p \in NodePairs(input, result) : SameProperties(p[1], p[2])

\* The names that the passes of the builders treat as schema keywords.
KeywordNames ==
    {"title", "default", "properties", "required", "patternProperties", "additionalProperties",
     "minimum", "maximum", "exclusiveMinimum", "exclusiveMaximum", "multipleOf",
     "minItems", "maxItems", "uniqueItems"}

\* A property of some node of x is named like a schema keyword.
KeywordNamedProperty(x) ==
    \E n \in SchemaNodes(x) :
        HasPropertiesMap(n) /\ DOMAIN n.m["properties"].m \cap KeywordNames # {}

(* C28, witness: a builder has returned for a model with a field named like a  *)
(* schema keyword.                                                             *)
C28_Witness ==
    /\ op \in Builders
    /\ ~IsRaise(result)
    /\ KeywordNamedProperty(input)

(* C28, the part that holds: the builders keep the properties of every node    *)
(* of a schema none of whose properties is named like a schema keyword.        *)
C28_KeptWithoutKeywordNames ==
    (op \in Builders /\ ~IsRaise(result) /\ ~KeywordNamedProperty(input)) =>
        \A p \in NodePairs(input, result) : SameProperties(p[1], p[2])

(* C28: each builder has changed the properties of a node.                     *)
C28_OpenAIChanges ==
    /\ op = "openai_response_schema" /\ ~IsRaise(result)
    /\ \E p \in NodePairs(input, result) : ~SameProperties(p[1], p[2])
C28_AnthropicChanges ==
    /\ op = "anthropic_response_schema" /\ ~IsRaise(result)
    /\ \E p \in NodePairs(input, result) : ~SameProperties(p[1], p[2])
C28_PerplexityChanges ==
    /\ op = "perplexity_response_schema" /\ ~IsRaise(result)
    /\ \E p \in NodePairs(input, result) : ~SameProperties(p[1], p[2])

---------------------------------------------------------------------------
(* C29: network instrumentation is transparent to the HTTP call: the wrapped  *)
(* send/request returns exactly the response object the original method       *)
(* returned, an exception raised while the http_exchange record is built or   *)
(* emitted is swallowed and never reaches the caller, and an exception raised *)
(* by the original method propagates unchanged with no record emitted.        *)

C29_OriginalRaised ==
    /\ wrapped.kind = "call"
    /\ wrapped.original.kind = "raise"
    /\ wrapped.outcome.kind = "raise"

---------------------------------------------------------------------------
(* C30: logged HTTP exchanges do not depend on credential header values: for  *)
(* two exchanges that differ only in the values of headers named              *)
(* authorization, api-key, x-api-key or x-auth-token (in any case) the        *)
(* emitted http_exchange records are identical, those headers appearing as    *)
(* "REDACTED" while every other header is logged as its string value.         *)

CredentialNames == {"authorization", "api-key", "x-api-key", "x-auth-token"}

IsCredentialName(name) == \E c \in CredentialNames : upper(name) = upper(Chr(c))

\* Two header sequences that differ at most in the values of credentials.
SameButCredentials(h1, h2) ==
    /\ Len(h1) = Len(h2)
    /\ \A i \in DOMAIN h1 :
          /\ h1[i][1] = h2[i][1]
          /\ IsCredentialName(h1[i][1]) \/ h1[i][2] = h2[i][2]

\* The record that the wrapper of the call emits for a request and a response.
RecordOf(request, http_response) ==
    IF LibraryOf(wrapped.method) = "httpx"
    THEN _log_httpx_exchange(request, http_response, wrapped.fault)
    ELSE _log_requests_exchange(request, http_response, wrapped.fault)

\* The headers of a record are those of the exchange, the credentials
\* redacted and the others as they are.
LoggedAsStated(headers, logged) ==
    /\ Len(logged.items) = Len(headers)
    /\ \A i \in DOMAIN headers :
          /\ logged.items[i][1] = headers[i][1]
          /\ logged.items[i][2] =
                IF IsCredentialName(headers[i][1]) THEN Str(Chr("REDACTED"))
                ELSE Str(headers[i][2])

C30_RecordsIgnoreCredentials ==
    (wrapped.kind = "call" /\ wrapped.original.kind = "return") =>
        /\ \A h \in RequestHeaders, g \in ResponseHeaders :
              (/\ SameButCredentials(wrapped.request.headers, h)
               /\ SameButCredentials(wrapped.response.headers, g)) =>
                  RecordOf([wrapped.request EXCEPT !.headers = h],
                           [wrapped.response EXCEPT !.headers = g])
                      = RecordOf(wrapped.request, wrapped.response)
        /\ \A i \in DOMAIN emitted :
              /\ emitted[i] = IF enabled
                              THEN setdefault(RecordOf(wrapped.request, wrapped.response).payload,
                                              "ts", Num(i))
                              ELSE RecordOf(wrapped.request, wrapped.response).payload
              /\ enabled => logfile = dumps(emitted[i], 0)
              /\ LoggedAsStated(wrapped.request.headers, Item(emitted[i], "request_headers"))
              /\ LoggedAsStated(wrapped.response.headers, Item(emitted[i], "response_headers"))

(* C30, witness: a record was written for an exchange whose request carries    *)
(* an Authorization and an X-API-KEY header and another header, and whose      *)
(* response carries an x-auth-token.                                           *)
C30_Witness ==
    /\ wrapped.kind = "call"
    /\ enabled
    /\ Len(emitted) = 1
    /\ logfile # <<>>
    /\ Len(wrapped.request.headers) = 3
    /\ Len(wrapped.response.headers) = 2

====
